---- MODULE Spec2Model ----
(***************************************************************************)
(* chessnote: the PGN tokenizer (Scanner), the recursive-descent driver    *)
(* (Parser.Parse, parseTagPair, parseMovetext, parseRAV) and the move      *)
(* decomposer (parseMoveFromRaw, parseCoreMove).                           *)
(*                                                                         *)
(* A character (Go rune) is a one-character string; the runes U+0000 and   *)
(* U+FEFF are written "NUL" and "BOM".  A string is a sequence of          *)
(* characters.  The recursion of parseMovetext through parseRAV is kept as *)
(* an explicit stack of the variationMoves of the active parseRAV calls.   *)
(***************************************************************************)
EXTENDS Integers, Sequences, FiniteSets, TLC

VARIABLES
    input,    \* the string handed to ParseString
    opts,     \* the options handed to ParseString
    strict,   \* Parser.config.Strict
    rd,       \* the content of the reader the Scanner reads from
    pos,      \* number of characters of rd the Scanner has consumed
    nscan,    \* number of calls of Scanner.Scan so far
    tok,      \* Parser.tok, the current token
    pc,       \* where the call is: "ParseString", "Parse", "parseTagPair_key",
              \* "parseTagPair_value", "parseTagPair_close", "parseMovetext",
              \* "done", "panic"
    key,      \* the local key of parseTagPair
    game,     \* the Game under construction: Tags, Moves, Result
    rav,      \* variationMoves of the active parseRAV calls, innermost last
    out,      \* what ParseString returned: [game, err]
    other,    \* the same twelve, of a second call that runs concurrently on
              \* its own Parser, while the first call is the one that steps
    split     \* a call of SplitMultiGame: its argument pgn, its locals lines,
              \* currentGame and games, the index i of the line the loop is
              \* at, and where the call is

vars == <<input, opts, strict, rd, pos, nscan, tok, pc, key, game, rav, out, other, split>>

(***************************************************************************)
(* Bounds of the model.                                                    *)
(***************************************************************************)
MaxChunks == 4
MaxChars == 5
MaxFairChunks == 3
MaxCastleChars == 6
MaxSquareChars == 4
MaxTagChunks == 3
MaxRavChunks == 5
MaxBomChunks == 4
MaxCommentChunks == 3
MaxSplitChunks == 4
MaxPromoChars == 3
MaxCoreChars == 5
MaxStartChunks == 4
MaxNumberChunks == 3
MaxStrayChunks == 4
MaxScanChars == 4
MaxOverRead == 2
MaxNagChunks == 4
MaxAgainChunks == 4
MaxKeyChunks == 4

NIL == "nil"

(***************************************************************************)
(* internal/util: the character classifier.                                *)
(***************************************************************************)
Files == <<"a", "b", "c", "d", "e", "f", "g", "h">>
Ranks == <<"1", "2", "3", "4", "5", "6", "7", "8">>
Digits == <<"0", "1", "2", "3", "4", "5", "6", "7", "8", "9">>
LowerLetters == {"a", "b", "c", "d", "e", "f", "g", "h", "i", "j", "k", "l", "m",
                 "n", "o", "p", "q", "r", "s", "t", "u", "v", "w", "x", "y", "z"}
UpperLetters == {"A", "B", "C", "D", "E", "F", "G", "H", "I", "J", "K", "L", "M",
                 "N", "O", "P", "Q", "R", "S", "T", "U", "V", "W", "X", "Y", "Z"}

Range(s) == {s[i] : i \in DOMAIN s}

\* The index of character c in the sequence cs (c - cs[1] in the code).
IndexIn(cs, c) == (CHOOSE i \in DOMAIN cs : cs[i] = c) - 1

IsFile(r) == r \in Range(Files)

IsRank(r) == r \in Range(Ranks)

IsWhitespace(r) == r \in {" ", "\t", "\n"}

IsLetter(r) == r \in LowerLetters \cup UpperLetters

IsDigit(r) == r \in Range(Digits)

(***************************************************************************)
(* The Scanner.  eof is the rune 0: read returns it when the reader is     *)
(* exhausted, and also when the next character of the input is U+0000.     *)
(***************************************************************************)
eof == "NUL"

Token(t, lit) == [Type |-> t, Literal |-> lit]

\* read at position i: the rune returned, and the position after the read
\* (nothing is consumed once the reader is exhausted).
read(s, i) == IF i < Len(s) THEN s[i + 1] ELSE eof

after(s, i) == IF i < Len(s) THEN i + 1 ELSE i

\* strconv.Atoi succeeds on lit: decimal digits (scanIdent never yields a
\* sign in front) whose value fits in a 64-bit int.
MaxInt64 == <<"9", "2", "2", "3", "3", "7", "2", "0", "3", "6", "8", "5", "4", "7", "7", "5", "8", "0", "7">>

RECURSIVE DropZeros(_)
DropZeros(d) == IF d # <<>> /\ Head(d) = "0" THEN DropZeros(Tail(d)) ELSE d

RECURSIVE DigitsLeq(_, _)
DigitsLeq(a, b) ==
    IF a = <<>> THEN TRUE
    ELSE IF IndexIn(Digits, Head(a)) < IndexIn(Digits, Head(b)) THEN TRUE
    ELSE IF IndexIn(Digits, Head(a)) > IndexIn(Digits, Head(b)) THEN FALSE
    ELSE DigitsLeq(Tail(a), Tail(b))

\* A conversion that takes the empty string for 0.
AtoiOkOrEmpty(lit) ==
    /\ \A i \in DOMAIN lit : IsDigit(lit[i])
    /\ LET d == DropZeros(lit)
       IN  \/ Len(d) < Len(MaxInt64)
           \/ Len(d) = Len(MaxInt64) /\ DigitsLeq(d, MaxInt64)

AtoiOk(lit) ==
    /\ lit # <<>>
    /\ \A i \in DOMAIN lit : IsDigit(lit[i])
    /\ LET d == DropZeros(lit)
       IN  \/ Len(d) < Len(MaxInt64)
           \/ Len(d) = Len(MaxInt64) /\ DigitsLeq(d, MaxInt64)

RECURSIVE AtoiVal(_)
AtoiVal(lit) ==
    IF lit = <<>> THEN 0
    ELSE 10 * AtoiVal(SubSeq(lit, 1, Len(lit) - 1)) + IndexIn(Digits, lit[Len(lit)])

\* The continuation test of scanIdent without "-".
IsIdentCharNoDash(r) ==
    IsLetter(r) \/ IsDigit(r) \/ r \in {"_", "+", "#", "x", "="}

\* The continuation test of scanIdent with "/" among the characters of an
\* identifier.
IsIdentCharWithSlash(r) ==
    IsLetter(r) \/ IsDigit(r) \/ r \in {"_", "+", "#", "x", "=", "-", "/"}

\* The loop of scanIdent from position i: the position where the run stops
\* and the position the scanner is left at (an eof rune is consumed, any
\* other stopping character is unread).
IsIdentChar(r) == IsLetter(r) \/ IsDigit(r) \/ r \in {"_", "+", "#", "x", "=", "-"}

RECURSIVE scanIdentLoop(_, _)
scanIdentLoop(s, i) ==
    IF read(s, i) = eof THEN [end |-> i, pos |-> after(s, i)]
    ELSE IF ~IsIdentChar(read(s, i)) THEN [end |-> i, pos |-> i]
    ELSE scanIdentLoop(s, i + 1)

scanIdent(s, i) ==
    LET l == scanIdentLoop(s, i)
        lit == SubSeq(s, i + 1, l.end)
    IN  [tok |-> IF AtoiOk(lit) THEN Token("NUMBER", lit) ELSE Token("IDENT", lit),
         pos |-> l.pos]

\* The loop shared by scanString, scanCommentBlock and scanCommentLine: read
\* up to and including the closing character, or eof.
RECURSIVE scanUntil(_, _, _)
scanUntil(s, i, close) ==
    IF read(s, i) = close \/ read(s, i) = eof
    THEN [end |-> i, pos |-> after(s, i)]
    ELSE scanUntil(s, i + 1, close)

scanString(s, i) ==
    LET l == scanUntil(s, i, "\"")
    IN  [tok |-> Token("STRING", SubSeq(s, i + 1, l.end)), pos |-> l.pos]

scanCommentBlock(s, i) ==
    LET l == scanUntil(s, i, "}")
    IN  [tok |-> Token("COMMENT", SubSeq(s, i + 1, l.end)), pos |-> l.pos]

scanCommentLine(s, i) ==
    LET l == scanUntil(s, i, "\n")
    IN  [tok |-> Token("COMMENT", SubSeq(s, i + 1, l.end)), pos |-> l.pos]

RECURSIVE scanNAGLoop(_, _)
scanNAGLoop(s, i) ==
    IF ~IsDigit(read(s, i)) THEN i ELSE scanNAGLoop(s, i + 1)

scanNAG(s, i) ==
    LET e == scanNAGLoop(s, i)
    IN  [tok |-> Token("NAG", SubSeq(s, i + 1, e)), pos |-> e]

\* The loop of scanWhitespace: the position it leaves the scanner at.
RECURSIVE scanWhitespaceLoop(_, _)
scanWhitespaceLoop(s, i) ==
    IF read(s, i) = eof THEN after(s, i)
    ELSE IF ~IsWhitespace(read(s, i)) THEN i
    ELSE scanWhitespaceLoop(s, i + 1)

\* Scan from position i: the token and the position after it.
RECURSIVE Scan(_, _)
scanWhitespace(s, i) == Scan(s, scanWhitespaceLoop(s, i))

Scan(s, i) ==
    LET r == read(s, i)
    IN  IF IsWhitespace(r) THEN scanWhitespace(s, i)
        ELSE IF IsLetter(r) \/ IsDigit(r) THEN scanIdent(s, i)
        ELSE IF r = eof THEN [tok |-> Token("EOF", <<>>), pos |-> after(s, i)]
        ELSE IF r = "[" THEN [tok |-> Token("LBRACKET", <<r>>), pos |-> after(s, i)]
        ELSE IF r = "]" THEN [tok |-> Token("RBRACKET", <<r>>), pos |-> after(s, i)]
        ELSE IF r = "(" THEN [tok |-> Token("LPAREN", <<r>>), pos |-> after(s, i)]
        ELSE IF r = ")" THEN [tok |-> Token("RPAREN", <<r>>), pos |-> after(s, i)]
        ELSE IF r = "\"" THEN scanString(s, after(s, i))
        ELSE IF r = "." THEN [tok |-> Token("DOT", <<r>>), pos |-> after(s, i)]
        ELSE IF r = "*" THEN [tok |-> Token("ASTERISK", <<r>>), pos |-> after(s, i)]
        ELSE IF r = "{" THEN scanCommentBlock(s, after(s, i))
        ELSE IF r = ";" THEN scanCommentLine(s, after(s, i))
        ELSE IF r = "$" THEN scanNAG(s, after(s, i))
        ELSE [tok |-> Token("ILLEGAL", <<r>>), pos |-> after(s, i)]

(***************************************************************************)
(* The record model and the move decomposer.  A result is [move, ok,       *)
(* panic]; panic is Go's run-time fault on an index or slice out of range. *)
(***************************************************************************)
\* PieceSymbols with an entry for the pawn.
PieceSymbolsWithPawn ==
    [N |-> "Knight", B |-> "Bishop", R |-> "Rook", Q |-> "Queen", K |-> "King",
     P |-> "Pawn"]

PieceSymbols == [N |-> "Knight", B |-> "Bishop", R |-> "Rook", Q |-> "Queen", K |-> "King"]

Square(f, r) == [File |-> f, Rank |-> r]

\* The zero value of Move.
Move == [From |-> Square(0, 0), To |-> Square(0, 0), Piece |-> "Pawn",
         Promotion |-> "Pawn", IsCapture |-> FALSE, IsCheck |-> FALSE,
         IsMate |-> FALSE, IsKingsideCastle |-> FALSE,
         IsQueensideCastle |-> FALSE, Variations |-> <<>>, NAGs |-> <<>>]

Ok(m) == [move |-> m, ok |-> TRUE, panic |-> FALSE]
Fail == [move |-> Move, ok |-> FALSE, panic |-> FALSE]
Panic == [move |-> Move, ok |-> FALSE, panic |-> TRUE]

\* Go's s[lo:hi] is defined when 0 <= lo <= hi <= len(s), and s[i] when
\* 0 <= i < len(s) (indices from 0); outside that the run time panics.
SliceOk(s, lo, hi) == 0 <= lo /\ lo <= hi /\ hi <= Len(s)
Slice(s, lo, hi) == SubSeq(s, lo + 1, hi)
IndexOk(s, i) == 0 <= i /\ i < Len(s)

\* strings.Index(s, c) for a one-character c: the first index from 0, or -1.
Index(s, c) ==
    IF \E i \in DOMAIN s : s[i] = c
    THEN (CHOOSE i \in DOMAIN s : s[i] = c /\ \A j \in 1..(i - 1) : s[j] # c) - 1
    ELSE -1

HasSuffix(s, c) == s # <<>> /\ s[Len(s)] = c

\* newSquare that counts files and ranks from 1.
newSquareFromOne(s) ==
    IF Len(s) # 2 \/ ~IsFile(s[1]) \/ ~IsRank(s[2])
    THEN [sq |-> Square(0, 0), ok |-> FALSE]
    ELSE [sq |-> Square(IndexIn(Files, s[1]) + 1, IndexIn(Ranks, s[2]) + 1), ok |-> TRUE]

newSquare(s) ==
    IF Len(s) # 2 \/ ~IsFile(s[1]) \/ ~IsRank(s[2])
    THEN [sq |-> Square(0, 0), ok |-> FALSE]
    ELSE [sq |-> Square(IndexIn(Files, s[1]), IndexIn(Ranks, s[2])), ok |-> TRUE]

parsePiece(movetext) ==
    IF Len(movetext) > 0 /\ movetext[1] \in DOMAIN PieceSymbols
    THEN [rest |-> Tail(movetext), piece |-> PieceSymbols[movetext[1]]]
    ELSE [rest |-> movetext, piece |-> "Pawn"]

\* parseDisambiguation that knows file hints only.
parseDisambiguationFileOnly(movetext) ==
    IF Len(movetext) = 0 THEN [rest |-> movetext, from |-> Square(0, 0)]
    ELSE IF movetext[1] = "x" THEN [rest |-> movetext, from |-> Square(0, 0)]
    ELSE IF IsFile(movetext[1])
         THEN [rest |-> Tail(movetext), from |-> Square(IndexIn(Files, movetext[1]), 0)]
    ELSE [rest |-> movetext, from |-> Square(0, 0)]

\* parseDisambiguation that also takes a file followed by a rank.
parseDisambiguationFileAndRank(movetext) ==
    IF Len(movetext) = 0 THEN [rest |-> movetext, from |-> Square(0, 0)]
    ELSE IF movetext[1] = "x" THEN [rest |-> movetext, from |-> Square(0, 0)]
    ELSE IF Len(movetext) >= 2 /\ IsFile(movetext[1]) /\ IsRank(movetext[2])
         THEN [rest |-> SubSeq(movetext, 3, Len(movetext)),
               from |-> Square(IndexIn(Files, movetext[1]), IndexIn(Ranks, movetext[2]))]
    ELSE IF IsFile(movetext[1])
         THEN [rest |-> Tail(movetext), from |-> Square(IndexIn(Files, movetext[1]), 0)]
    ELSE IF IsRank(movetext[1])
         THEN [rest |-> Tail(movetext), from |-> Square(0, IndexIn(Ranks, movetext[1]))]
    ELSE [rest |-> movetext, from |-> Square(0, 0)]

parseDisambiguation(movetext) ==
    IF Len(movetext) = 0 THEN [rest |-> movetext, from |-> Square(0, 0)]
    ELSE IF movetext[1] = "x" THEN [rest |-> movetext, from |-> Square(0, 0)]
    ELSE IF IsFile(movetext[1])
         THEN [rest |-> Tail(movetext), from |-> Square(IndexIn(Files, movetext[1]), 0)]
    ELSE IF IsRank(movetext[1])
         THEN [rest |-> Tail(movetext), from |-> Square(0, IndexIn(Ranks, movetext[1]))]
    ELSE [rest |-> movetext, from |-> Square(0, 0)]

\* parseCoreMove from "The destination square is always the last two
\* characters" on, once the length has been checked.
coreFromDest(movetext) ==
    IF ~SliceOk(movetext, Len(movetext) - 2, Len(movetext)) THEN Panic
    ELSE
    LET dest == newSquare(Slice(movetext, Len(movetext) - 2, Len(movetext)))
        prefix == Slice(movetext, 0, Len(movetext) - 2)
        p == parsePiece(prefix)
        d == parseDisambiguation(p.rest)
        capture == Len(d.rest) > 0 /\ d.rest[1] = "x"
        rest == IF capture THEN Tail(d.rest) ELSE d.rest
    IN  IF ~dest.ok THEN Fail
        ELSE IF Len(rest) > 0 THEN Fail
        ELSE Ok([Move EXCEPT !.To = dest.sq, !.Piece = p.piece, !.From = d.from,
                             !.IsCapture = capture])

\* parseCoreMove without the test len(movetext) < 2 before the slice of the
\* destination.
parseCoreMoveNoLenCheck(raw) ==
    IF Len(raw) = 4 /\ IsFile(raw[1]) /\ raw[2] = "x"
    THEN LET dest == newSquare(Slice(raw, 2, Len(raw)))
         IN  IF ~dest.ok THEN Fail
             ELSE Ok([Move EXCEPT !.Piece = "Pawn",
                                  !.From = Square(IndexIn(Files, raw[1]), 0),
                                  !.To = dest.sq, !.IsCapture = TRUE])
    ELSE coreFromDest(raw)

parseCoreMove(raw) ==
    IF Len(raw) = 4 /\ IsFile(raw[1]) /\ raw[2] = "x"
    THEN LET dest == newSquare(Slice(raw, 2, Len(raw)))
         IN  IF ~dest.ok THEN Fail
             ELSE Ok([Move EXCEPT !.Piece = "Pawn",
                                  !.From = Square(IndexIn(Files, raw[1]), 0),
                                  !.To = dest.sq, !.IsCapture = TRUE])
    ELSE IF Len(raw) < 2 THEN Fail
    ELSE coreFromDest(raw)

\* Step 1 and 2 of parseMoveFromRaw: the promotion, or else the check/mate
\* suffix, is parsed and stripped.  [ok, Promotion, IsCheck, IsMate, movetext]
stripPromotionOrSuffix(raw) ==
    LET i == Index(raw, "=")
    IN  IF i # -1
        THEN LET promoAndSuffix == Slice(raw, i + 1, Len(raw))
                 suffix == Tail(promoAndSuffix)
             IN  IF Len(promoAndSuffix) = 0
                 THEN [ok |-> FALSE, Promotion |-> "Pawn", IsCheck |-> FALSE,
                       IsMate |-> FALSE, movetext |-> raw]
                 ELSE IF promoAndSuffix[1] \notin DOMAIN PieceSymbols
                 THEN [ok |-> FALSE, Promotion |-> "Pawn", IsCheck |-> FALSE,
                       IsMate |-> FALSE, movetext |-> raw]
                 ELSE [ok |-> TRUE, Promotion |-> PieceSymbols[promoAndSuffix[1]],
                       IsCheck |-> Len(promoAndSuffix) > 1 /\ suffix = <<"+">>,
                       IsMate |-> Len(promoAndSuffix) > 1 /\ suffix = <<"#">>,
                       movetext |-> Slice(raw, 0, i)]
        ELSE IF HasSuffix(raw, "+")
        THEN [ok |-> TRUE, Promotion |-> "Pawn", IsCheck |-> TRUE, IsMate |-> FALSE,
              movetext |-> Slice(raw, 0, Len(raw) - 1)]
        ELSE IF HasSuffix(raw, "#")
        THEN [ok |-> TRUE, Promotion |-> "Pawn", IsCheck |-> FALSE, IsMate |-> TRUE,
              movetext |-> Slice(raw, 0, Len(raw) - 1)]
        ELSE [ok |-> TRUE, Promotion |-> "Pawn", IsCheck |-> FALSE, IsMate |-> FALSE,
              movetext |-> raw]

\* parseMoveFromRaw that takes every core beginning with "O-O" for kingside
\* castling.
parseMoveFromRawCastlePrefix(raw) ==
    LET f == stripPromotionOrSuffix(raw)
        core == IF Len(f.movetext) >= 3 /\ SubSeq(f.movetext, 1, 3) = <<"O", "-", "O">>
                THEN Ok([Move EXCEPT !.Piece = "King", !.IsKingsideCastle = TRUE])
                ELSE parseCoreMove(f.movetext)
    IN  IF ~f.ok THEN Fail
        ELSE IF core.panic THEN Panic
        ELSE IF ~core.ok THEN Fail
        ELSE Ok([core.move EXCEPT !.IsCheck = f.IsCheck, !.IsMate = f.IsMate,
                                  !.Promotion = f.Promotion])

parseMoveFromRaw(raw) ==
    LET f == stripPromotionOrSuffix(raw)
        core == IF f.movetext = <<"O", "-", "O">>
                THEN Ok([Move EXCEPT !.Piece = "King", !.IsKingsideCastle = TRUE])
                ELSE IF f.movetext = <<"O", "-", "O", "-", "O">>
                THEN Ok([Move EXCEPT !.Piece = "King", !.IsQueensideCastle = TRUE])
                ELSE parseCoreMove(f.movetext)
    IN  IF ~f.ok THEN Fail
        ELSE IF core.panic THEN Panic
        ELSE IF ~core.ok THEN Fail
        ELSE Ok([core.move EXCEPT !.IsCheck = f.IsCheck, !.IsMate = f.IsMate,
                                  !.Promotion = f.Promotion])

isResult(t) ==
    \/ t.Type = "ASTERISK"
    \/ /\ t.Type = "IDENT"
       /\ t.Literal \in {<<"1", "-", "0">>, <<"0", "-", "1">>,
                         <<"1", "/", "2", "-", "1", "/", "2">>}

(***************************************************************************)
(* The driver.  ParseString, NewParser and the start of Parse are one      *)
(* step; then one step per iteration of the loop of Parse and of           *)
(* parseMovetext, and one step per token of parseTagPair (key holds its    *)
(* local of that name).  A call of parseRAV is two steps: pushing the      *)
(* new variationMoves, and, when the inner parseMovetext returns, the      *)
(* check for the right parenthesis and the append to the parent move.      *)
(***************************************************************************)
BOM == "BOM"

\* ParseString without the trimming: the text goes to the reader as it is.
TrimNothing(s) == s

\* strings.TrimPrefix(s, "\uFEFF")
TrimPrefix(s) == IF s # <<>> /\ s[1] = BOM THEN Tail(s) ELSE s

\* A store that folds the letters of the key to upper case.
SetTagFoldsCase(tags, name, value) ==
    LET lower == <<"a", "b", "c", "d", "e", "f", "g", "h", "i", "j", "k", "l", "m",
                   "n", "o", "p", "q", "r", "s", "t", "u", "v", "w", "x", "y", "z">>
        upper == <<"A", "B", "C", "D", "E", "F", "G", "H", "I", "J", "K", "L", "M",
                   "N", "O", "P", "Q", "R", "S", "T", "U", "V", "W", "X", "Y", "Z">>
        up(c) == IF \E i \in 1..26 : lower[i] = c
                 THEN upper[CHOOSE i \in 1..26 : lower[i] = c] ELSE c
        folded == [i \in 1..Len(name) |-> up(name[i])]
    IN  [k \in DOMAIN tags \cup {folded} |-> IF k = folded THEN value ELSE tags[k]]

\* A store that forgets the tags stored before.
SetTagAlone(tags, name, value) == [k \in {name} |-> value]

\* make(map[string]string), and g.Tags[name] = value
EmptyTags == <<>>
SetTag(tags, name, value) ==
    [k \in DOMAIN tags \cup {name} |-> IF k = name THEN value ELSE tags[k]]

\* &Game{Tags: make(map[string]string)}
NewGame == [Tags |-> EmptyTags, Moves |-> <<>>, Result |-> <<>>]

\* *moves of the running parseMovetext call
CurMoves == IF rav = <<>> THEN game.Moves ELSE rav[Len(rav)]

\* p.scan()
scan ==
    LET s == Scan(rd, pos)
    IN  /\ tok' = s.tok
        /\ pos' = s.pos
        /\ nscan' = nscan + 1

\* return game, nil  and  return nil, err
ReturnGame(g) == pc' = "done" /\ out' = [game |-> <<g>>, err |-> NIL]
ReturnErr(e) == pc' = "done" /\ out' = [game |-> <<>>, err |-> e]

\* NewParser: Strict is true unless an option clears it.
NewParserStrict(o) == "WithLaxParsing" \notin Range(o)

ParseString ==
    /\ pc = "ParseString"
    /\ rd' = TrimPrefix(input)
    /\ strict' = NewParserStrict(opts)
    /\ LET s == Scan(rd', 0)
       IN  tok' = s.tok /\ pos' = s.pos /\ nscan' = 1
    /\ game' = NewGame
    /\ pc' = "Parse"
    /\ UNCHANGED <<split, other, input, opts, rav, out, key>>

Parse_EOF ==
    /\ pc = "Parse"
    /\ tok.Type = "EOF"
    /\ IF strict /\ Len(game.Moves) > 0
       THEN ReturnErr("unexpected EOF: game must end with a result token")
       ELSE ReturnGame(game)
    /\ UNCHANGED <<split, other, input, opts, strict, rd, pos, nscan, tok, game, rav, key>>

\* case LBRACKET, and parseTagPair up to its first p.scan() (consume "[")
Parse_LBRACKET ==
    /\ pc = "Parse"
    /\ tok.Type = "LBRACKET"
    /\ IF Len(game.Moves) > 0
       THEN /\ ReturnGame(game)
            /\ UNCHANGED <<tok, pos, nscan>>
       ELSE /\ scan
            /\ pc' = "parseTagPair_key"
            /\ UNCHANGED out
    /\ UNCHANGED <<split, other, input, opts, strict, rd, game, rav, key>>

\* key := p.tok, its test, and the p.scan() that consumes the key
parseTagPair_key ==
    /\ pc = "parseTagPair_key"
    /\ key' = tok
    /\ IF tok.Type # "IDENT"
       THEN /\ ReturnErr("expected ident for tag key")
            /\ UNCHANGED <<tok, pos, nscan>>
       ELSE /\ scan
            /\ pc' = "parseTagPair_value"
            /\ UNCHANGED out
    /\ UNCHANGED <<split, other, input, opts, strict, rd, game, rav>>

\* value := p.tok, its test, g.Tags[key.Literal] = value.Literal, and the
\* p.scan() that consumes the value
parseTagPair_value ==
    /\ pc = "parseTagPair_value"
    /\ IF tok.Type # "STRING"
       THEN /\ ReturnErr("expected string for tag value")
            /\ UNCHANGED <<tok, pos, nscan, game>>
       ELSE /\ game' = [game EXCEPT !.Tags = SetTag(@, key.Literal, tok.Literal)]
            /\ scan
            /\ pc' = "parseTagPair_close"
            /\ UNCHANGED out
    /\ UNCHANGED <<split, other, input, opts, strict, rd, rav, key>>

\* the test for "]", the p.scan() that consumes it, and the return to the
\* loop of Parse
parseTagPair_close ==
    /\ pc = "parseTagPair_close"
    /\ IF tok.Type # "RBRACKET"
       THEN /\ ReturnErr("expected ']' to close tag")
            /\ UNCHANGED <<tok, pos, nscan>>
       ELSE /\ scan
            /\ pc' = "Parse"
            /\ UNCHANGED out
    /\ UNCHANGED <<split, other, input, opts, strict, rd, game, rav, key>>

Parse_COMMENT ==
    /\ pc = "Parse"
    /\ tok.Type = "COMMENT"
    /\ scan
    /\ UNCHANGED <<split, other, input, opts, strict, rd, pc, game, rav, out, key>>

\* case IDENT, NUMBER: the call of parseMovetext(&game.Moves)
Parse_IDENT_NUMBER ==
    /\ pc = "Parse"
    /\ tok.Type \in {"IDENT", "NUMBER"}
    /\ pc' = "parseMovetext"
    /\ UNCHANGED <<split, other, input, opts, strict, rd, pos, nscan, tok, game, rav, out, key>>

Parse_default ==
    /\ pc = "Parse"
    /\ tok.Type \notin {"EOF", "LBRACKET", "COMMENT", "IDENT", "NUMBER"}
    /\ ReturnErr("unexpected token at start of game")
    /\ UNCHANGED <<split, other, input, opts, strict, rd, pos, nscan, tok, game, rav, key>>

\* The ignored tokens of the movetext, without the dots.
IgnoredNoDot(t) == t.Type \in {"NUMBER", "COMMENT"}

\* The ignored tokens of the movetext, without the comments.
IgnoredNoComment(t) == t.Type \in {"NUMBER", "DOT"}

\* The tokens parseMovetext steps over: move numbers, dots and comments.
Ignored(t) == t.Type \in {"NUMBER", "DOT", "COMMENT"}

\* The tokens on which parseMovetext returns nil to its caller.
Terminates(t) ==
    \/ t.Type \in {"EOF", "ASTERISK", "RPAREN", "LBRACKET"}
    \/ t.Type = "IDENT" /\ isResult(t)

\* afterMovetext without the strict-mode test: a missing result is accepted
\* in both modes.
afterMovetextNoStrictTest(g, t, s) ==
    IF isResult(t) THEN [game |-> <<[g EXCEPT !.Result = t.Literal]>>, err |-> NIL]
    ELSE [game |-> <<g>>, err |-> NIL]

\* afterMovetext with the strict-mode test taken in both modes: a missing
\* result is an error also in lax mode.
afterMovetextAlwaysStrict(g, t, s) ==
    IF isResult(t) THEN [game |-> <<[g EXCEPT !.Result = t.Literal]>>, err |-> NIL]
    ELSE [game |-> <<>>, err |-> "game must end with a result token"]

\* afterMovetext that stores the literal of the token before testing it.
afterMovetextStoresToken(g, t, s) ==
    IF isResult(t) THEN [game |-> <<[g EXCEPT !.Result = t.Literal]>>, err |-> NIL]
    ELSE IF s THEN [game |-> <<>>, err |-> "game must end with a result token"]
    ELSE [game |-> <<[g EXCEPT !.Result = t.Literal]>>, err |-> NIL]

\* What Parse does once parseMovetext(&game.Moves) has returned nil.
afterMovetext(g, t, s) ==
    IF isResult(t) THEN [game |-> <<[g EXCEPT !.Result = t.Literal]>>, err |-> NIL]
    ELSE IF s THEN [game |-> <<>>, err |-> "game must end with a result token"]
    ELSE [game |-> <<g>>, err |-> NIL]

\* Parse_afterMovetext that consumes the result token it stores.
Parse_afterMovetextConsumes ==
    /\ pc = "parseMovetext"
    /\ rav = <<>>
    /\ Terminates(tok)
    /\ LET r == afterMovetext(game, tok, strict)
       IN  /\ out' = r
           /\ game' = IF r.game # <<>> THEN r.game[1] ELSE game
    /\ IF isResult(tok) THEN scan ELSE UNCHANGED <<pos, nscan, tok>>
    /\ pc' = "done"
    /\ UNCHANGED <<split, other, input, opts, strict, rd, rav, key>>

\* parseMovetext of the main line returns nil; Parse looks for the result.
Parse_afterMovetext ==
    /\ pc = "parseMovetext"
    /\ rav = <<>>
    /\ Terminates(tok)
    /\ LET r == afterMovetext(game, tok, strict)
       IN  /\ out' = r
           /\ game' = IF r.game # <<>> THEN r.game[1] ELSE game
    /\ pc' = "done"
    /\ UNCHANGED <<split, other, input, opts, strict, rd, pos, nscan, tok, rav, key>>

\* AppendVariation that resets the NAGs of the last move.
AppendVariationDropsNAGs(moves, v) ==
    [moves EXCEPT ![Len(moves)].Variations = Append(@, v), ![Len(moves)].NAGs = <<>>]

\* AppendVariation that overwrites the Variations of the last move.
AppendVariationOverwrite(moves, v) ==
    [moves EXCEPT ![Len(moves)].Variations = <<v>>]

\* The move sequence with v appended to the Variations of its last move.
AppendVariation(moves, v) ==
    [moves EXCEPT ![Len(moves)].Variations = Append(@, v)]

\* AppendNAG that puts n in front of the NAGs of the last move.
AppendNAGInFront(moves, n) ==
    [moves EXCEPT ![Len(moves)].NAGs = <<n>> \o @]

\* The move sequence with n appended to the NAGs of its last move.
AppendNAG(moves, n) ==
    [moves EXCEPT ![Len(moves)].NAGs = Append(@, n)]

\* parseRAV's test of the token parseMovetext(&variationMoves) stopped at.
closesVariation(t) == t.Type = "RPAREN"

\* parseRAV_close that tolerates a missing right parenthesis in lax mode.
parseRAV_closeLax ==
    /\ pc = "parseMovetext"
    /\ rav # <<>>
    /\ Terminates(tok)
    /\ IF ~closesVariation(tok) /\ strict
       THEN /\ ReturnErr("expected ')' to close variation")
            /\ UNCHANGED <<pos, nscan, tok, game, rav>>
       ELSE /\ IF closesVariation(tok) THEN scan ELSE UNCHANGED <<pos, nscan, tok>>
            /\ IF Len(rav) = 1
               THEN /\ game' = [game EXCEPT !.Moves = AppendVariation(@, rav[1])]
                    /\ rav' = <<>>
               ELSE /\ rav' = [SubSeq(rav, 1, Len(rav) - 1) EXCEPT
                                 ![Len(rav) - 1] = AppendVariation(@, rav[Len(rav)])]
                    /\ UNCHANGED game
            /\ UNCHANGED <<pc, out>>
    /\ UNCHANGED <<split, other, input, opts, strict, rd, key>>

\* parseMovetext(&variationMoves) returns nil inside parseRAV: the rest of
\* parseRAV.
parseRAV_close ==
    /\ pc = "parseMovetext"
    /\ rav # <<>>
    /\ Terminates(tok)
    /\ IF ~closesVariation(tok)
       THEN /\ ReturnErr("expected ')' to close variation")
            /\ UNCHANGED <<pos, nscan, tok, game, rav>>
       ELSE /\ scan
            /\ IF Len(rav) = 1
               THEN /\ game' = [game EXCEPT !.Moves = AppendVariation(@, rav[1])]
                    /\ rav' = <<>>
               ELSE /\ rav' = [SubSeq(rav, 1, Len(rav) - 1) EXCEPT
                                 ![Len(rav) - 1] = AppendVariation(@, rav[Len(rav)])]
                    /\ UNCHANGED game
            /\ UNCHANGED <<pc, out>>
    /\ UNCHANGED <<split, other, input, opts, strict, rd, key>>

\* *moves = append(*moves, move)
SetCurMoves(m) ==
    IF rav = <<>>
    THEN game' = [game EXCEPT !.Moves = m] /\ UNCHANGED rav
    ELSE rav' = [rav EXCEPT ![Len(rav)] = m] /\ UNCHANGED game

\* parseMovetext_IDENT that consumes a rejected token and goes on.
parseMovetext_IDENTSkipInvalid ==
    /\ pc = "parseMovetext"
    /\ tok.Type = "IDENT"
    /\ ~isResult(tok)
    /\ LET m == parseMoveFromRaw(tok.Literal)
       IN  IF m.panic
           THEN /\ pc' = "panic"
                /\ UNCHANGED <<pos, nscan, tok, game, rav, out>>
           ELSE IF ~m.ok
           THEN /\ scan
                /\ UNCHANGED <<pc, out, game, rav>>
           ELSE /\ scan
                /\ SetCurMoves(Append(CurMoves, m.move))
                /\ UNCHANGED <<pc, out>>
    /\ UNCHANGED <<split, other, input, opts, strict, rd, key>>

\* case IDENT that is no result: parseMove
parseMovetext_IDENT ==
    /\ pc = "parseMovetext"
    /\ tok.Type = "IDENT"
    /\ ~isResult(tok)
    /\ LET m == parseMoveFromRaw(tok.Literal)
       IN  IF m.panic
           THEN /\ pc' = "panic"
                /\ UNCHANGED <<pos, nscan, tok, game, rav, out>>
           ELSE IF ~m.ok
           THEN /\ ReturnErr("invalid move")
                /\ UNCHANGED <<pos, nscan, tok, game, rav>>
           ELSE /\ scan
                /\ SetCurMoves(Append(CurMoves, m.move))
                /\ UNCHANGED <<pc, out>>
    /\ UNCHANGED <<split, other, input, opts, strict, rd, key>>

\* parseMovetext_NAG whose test looks at the moves of the main line, also
\* inside a variation.
parseMovetext_NAGMainLineTest ==
    /\ pc = "parseMovetext"
    /\ tok.Type = "NAG"
    /\ IF Len(game.Moves) = 0
       THEN /\ ReturnErr("found NAG before any moves")
            /\ UNCHANGED <<pos, nscan, tok, game, rav>>
       ELSE IF ~AtoiOk(tok.Literal)
       THEN /\ ReturnErr("invalid NAG value")
            /\ UNCHANGED <<pos, nscan, tok, game, rav>>
       ELSE /\ SetCurMoves(IF Len(CurMoves) = 0 THEN CurMoves
                           ELSE AppendNAG(CurMoves, AtoiVal(tok.Literal)))
            /\ scan
            /\ UNCHANGED <<pc, out>>
    /\ UNCHANGED <<split, other, input, opts, strict, rd, key>>

parseMovetext_NAG ==
    /\ pc = "parseMovetext"
    /\ tok.Type = "NAG"
    /\ IF Len(CurMoves) = 0
       THEN /\ ReturnErr("found NAG before any moves")
            /\ UNCHANGED <<pos, nscan, tok, game, rav>>
       ELSE IF ~AtoiOk(tok.Literal)
       THEN /\ ReturnErr("invalid NAG value")
            /\ UNCHANGED <<pos, nscan, tok, game, rav>>
       ELSE /\ SetCurMoves(AppendNAG(CurMoves, AtoiVal(tok.Literal)))
            /\ scan
            /\ UNCHANGED <<pc, out>>
    /\ UNCHANGED <<split, other, input, opts, strict, rd, key>>

\* parseMovetext_ignore without its p.scan(): the loop comes back to the
\* same token.
parseMovetext_ignoreNoScan ==
    /\ pc = "parseMovetext"
    /\ tok.Type \in {"NUMBER", "DOT", "COMMENT"}
    /\ UNCHANGED vars

\* case NUMBER, DOT, COMMENT
parseMovetext_ignore ==
    /\ pc = "parseMovetext"
    /\ Ignored(tok)
    /\ scan
    /\ UNCHANGED <<split, other, input, opts, strict, rd, pc, game, rav, out, key>>

\* case LPAREN: parseRAV up to its call of parseMovetext(&variationMoves)
parseMovetext_LPAREN ==
    /\ pc = "parseMovetext"
    /\ tok.Type = "LPAREN"
    /\ IF Len(CurMoves) = 0
       THEN /\ ReturnErr("found variation before any moves")
            /\ UNCHANGED <<pos, nscan, tok, rav>>
       ELSE /\ scan
            /\ rav' = Append(rav, <<>>)
            /\ UNCHANGED <<pc, out>>
    /\ UNCHANGED <<split, other, input, opts, strict, rd, game, key>>

\* parseMovetext_default that, in lax mode, skips the token and goes on.
parseMovetext_defaultLaxSkips ==
    /\ pc = "parseMovetext"
    /\ tok.Type \in {"ILLEGAL", "STRING", "RBRACKET"}
    /\ IF strict
       THEN /\ ReturnErr("unexpected token in movetext")
            /\ UNCHANGED <<pos, nscan, tok>>
       ELSE /\ scan
            /\ UNCHANGED <<pc, out>>
    /\ UNCHANGED <<split, other, input, opts, strict, rd, game, rav, key>>

parseMovetext_default ==
    /\ pc = "parseMovetext"
    /\ tok.Type \in {"ILLEGAL", "STRING", "RBRACKET"}
    /\ ReturnErr("unexpected token in movetext")
    /\ UNCHANGED <<split, other, input, opts, strict, rd, pos, nscan, tok, game, rav, key>>

(***************************************************************************)
(* The driver as a function of the text: what one call returns.  The       *)
(* position p is the one the scanner stood at before it read the current   *)
(* token, so that p.tok is Scan(s, p).tok and p.scan() moves p to          *)
(* Scan(s, p).pos.                                                         *)
(***************************************************************************)
RECURSIVE parseMovetext(_, _, _)
RECURSIVE parseRAV(_, _, _)

\* parseRAV, called at "(": the enclosing moves with the variation
\* appended, the position of the token after ")", and the error.
parseRAV(s, p, moves) ==
    LET v == parseMovetext(s, Scan(s, p).pos, <<>>)
    IN  IF v.err # NIL THEN [moves |-> moves, p |-> v.p, err |-> v.err]
        ELSE IF ~closesVariation(Scan(s, v.p).tok)
        THEN [moves |-> moves, p |-> v.p, err |-> "expected ')' to close variation"]
        ELSE [moves |-> AppendVariation(moves, v.moves),
              p |-> Scan(s, v.p).pos, err |-> NIL]

\* parseMovetext: the moves, the position of the token it stopped at, and
\* the error.
parseMovetext(s, p, moves) ==
    LET c == Scan(s, p)
        t == c.tok
    IN  IF Terminates(t) THEN [moves |-> moves, p |-> p, err |-> NIL]
        ELSE IF t.Type = "IDENT"
        THEN LET m == parseMoveFromRaw(t.Literal)
             IN  IF m.panic THEN [moves |-> moves, p |-> p, err |-> "panic"]
                 ELSE IF ~m.ok THEN [moves |-> moves, p |-> p, err |-> "invalid move"]
                 ELSE parseMovetext(s, c.pos, Append(moves, m.move))
        ELSE IF t.Type = "NAG"
        THEN IF Len(moves) = 0
             THEN [moves |-> moves, p |-> p, err |-> "found NAG before any moves"]
             ELSE IF ~AtoiOk(t.Literal)
             THEN [moves |-> moves, p |-> p, err |-> "invalid NAG value"]
             ELSE parseMovetext(s, c.pos, AppendNAG(moves, AtoiVal(t.Literal)))
        ELSE IF Ignored(t)
        THEN parseMovetext(s, c.pos, moves)
        ELSE IF t.Type = "LPAREN"
        THEN IF Len(moves) = 0
             THEN [moves |-> moves, p |-> p, err |-> "found variation before any moves"]
             ELSE LET r == parseRAV(s, p, moves)
                  IN  IF r.err # NIL THEN r ELSE parseMovetext(s, r.p, r.moves)
        ELSE [moves |-> moves, p |-> p, err |-> "unexpected token in movetext"]

\* parseTagPair, called at "[": the game with the tag stored, the position
\* of the token after "]", and the error.
parseTagPair(s, p, g) ==
    LET k == Scan(s, Scan(s, p).pos)
        v == Scan(s, k.pos)
        c == Scan(s, v.pos)
    IN  IF k.tok.Type # "IDENT"
        THEN [game |-> g, p |-> p, err |-> "expected ident for tag key"]
        ELSE IF v.tok.Type # "STRING"
        THEN [game |-> g, p |-> p, err |-> "expected string for tag value"]
        ELSE IF c.tok.Type # "RBRACKET"
        THEN [game |-> g, p |-> p, err |-> "expected ']' to close tag"]
        ELSE [game |-> [g EXCEPT !.Tags = SetTag(@, k.tok.Literal, v.tok.Literal)],
              p |-> c.pos, err |-> NIL]

\* Parse: the pair (game, err) it returns.
RECURSIVE Parse(_, _, _, _)
Parse(s, p, g, st) ==
    LET c == Scan(s, p)
        t == c.tok
    IN  IF t.Type = "EOF"
        THEN IF st /\ Len(g.Moves) > 0
             THEN [game |-> <<>>, err |-> "unexpected EOF: game must end with a result token"]
             ELSE [game |-> <<g>>, err |-> NIL]
        ELSE IF t.Type = "LBRACKET"
        THEN IF Len(g.Moves) > 0 THEN [game |-> <<g>>, err |-> NIL]
             ELSE LET r == parseTagPair(s, p, g)
                  IN  IF r.err # NIL THEN [game |-> <<>>, err |-> r.err]
                      ELSE Parse(s, r.p, r.game, st)
        ELSE IF t.Type = "COMMENT" THEN Parse(s, c.pos, g, st)
        ELSE IF t.Type \in {"IDENT", "NUMBER"}
        THEN LET m == parseMovetext(s, p, g.Moves)
             IN  IF m.err # NIL THEN [game |-> <<>>, err |-> m.err]
                 ELSE afterMovetext([g EXCEPT !.Moves = m.moves], Scan(s, m.p).tok, st)
        ELSE [game |-> <<>>, err |-> "unexpected token at start of game"]

\* ParseString(s, opts...): the pair (game, err) it returns.
ParseStringOf(s, o) == Parse(TrimPrefix(s), 0, NewGame, NewParserStrict(o))

(***************************************************************************)
(* The inputs.  A chunk is a piece of PGN text; an input is one of the     *)
(* samples (the texts of the repository's tests and examples) or the       *)
(* concatenation of at most MaxChunks chunks of a vocabulary.              *)
(***************************************************************************)
RECURSIVE Concat(_)
Concat(ss) == IF ss = <<>> THEN <<>> ELSE Head(ss) \o Concat(Tail(ss))

SeqsUpTo(S, n) == UNION {[1..k -> S] : k \in 0..n}

Samples ==
    {<<"[", "E", "v", "e", "n", "t", " ", "\"", "x", "\"", "]", "\n", "1", ".", " ", "e", "4", " ", "{", "c", "}", " ", "e", "5", " ", "$", "1", " ", "(", "1", ".", " ", "d", "4", ")", " ", "*">>,
     <<"{", "c", "}", " ", "[", "A", " ", "\"", "b", "\"", "]">>,
     <<")">>,
     <<"e", "4", " ", "]">>,
     <<"1", ".", " ", "e", "4", " ", "(", "1", ".", " ", "d", "4", ")", " ", "1", ".", ".", ".", " ", "e", "5", " ", "*">>,
     <<"1", ".", " ", "e", "4", " ", "$", "1", " ", "1", ".", ".", ".", " ", "e", "5", " ", "$", "2", " ", "$", "1", "8", " ", "*">>,
     <<"[", "E", "v", "e", "n", "t", " ", "\"", "x", "\"", "]", "\n", "1", ".", " ", "e", "4">>,
     <<"1", ".", " ", "e", "x", "d", "8", "=", "R", "#", " ", "*">>,
     <<"1", ".", " ", "O", "-", "O", "+", " ", "*">>,
     <<"BOM", "1", ".", " ", "e", "4", " ", "e", "5", " ", "1", "-", "0">>,
     <<";", " ", "c", "\n", "[", "A", " ", "\"", "b", "\"", "]", " ", "1", "/", "2", "-", "1", "/", "2">>}

\* Variations nested five deep, and several variations after one move.
Scenarios ==
    {<<"1", ".", " ", "e", "4", " ", "(", "1", ".", " ", "d", "4", " ", "(", "1", ".", " ", "c", "4", " ", "(", "1", ".", " ", "b", "4", " ", "(", "1", ".", " ", "a", "4", " ", "(", "1", ".", " ", "h", "4", " ", "$", "3", ")", ")", ")", ")", ")", " ", "(", "1", ".", " ", "N", "f", "3", " ", "$", "1", ")", " ", "$", "2", " ", "e", "5", " ", "*">>,
     <<"1", ".", " ", "e", "4", " ", "(", "1", ".", " ", "d", "4", " ", "d", "5", " ", "(", "1", ".", ".", ".", " ", "N", "f", "6", ")", " ", "(", "1", ".", ".", ".", " ", "f", "5", " ", "$", "6", " ", "{", "c", "}", " ", "$", "1", "3", ")", ")", " ", "e", "5">>,
     <<"1", ".", " ", "e", "4", " ", "$", "1", " ", "(", "1", ".", " ", "d", "4", " ", "$", "2", ")", " ", "{", "c", "}", " ", "$", "3", " ", "$", "4", " ", "1", ".", ".", ".", " ", "e", "5", " ", "(", "1", ".", ".", ".", " ", "c", "5", ")", " ", "(", "1", ".", ".", ".", " ", "e", "6", ")", " ", "1", "-", "0">>}

\* Well-formed movetext: moves, variations, NAGs, comments, a result.
MovetextChunks ==
    {<<"e", "4", " ">>, <<"N", "f", "3", "+", " ">>, <<"(", "d", "4", " ">>,
     <<")">>, <<"$", "7", " ">>, <<"$", "1", "8">>, <<"{", "c", "}">>, <<"*">>}

\* Movetext with what may break it: a move the decomposer rejects, bare
\* parentheses, a left bracket, a result, the character U+0000.
ErrorChunks ==
    {<<"e", "4", " ">>, <<"e", "9", " ">>, <<"(">>, <<")">>, <<"[">>, <<"*">>,
     <<"1", "-", "0", " ">>, <<eof>>}

\* One chunk of each kind, for the runs to completion.
FairChunks ==
    {<<"e", "4", " ">>, <<"e", "9", " ">>, <<"(", "d", "4", " ">>, <<")">>,
     <<"$", "7", " ">>, <<"{", "c", "}">>, <<"[">>, <<"*">>, <<eof>>}

\* Moves and the four result literals.
ResultLiterals ==
    {<<"*">>, <<"1", "-", "0">>, <<"0", "-", "1">>,
     <<"1", "/", "2", "-", "1", "/", "2">>}

ResultChunks == {<<"e", "4", " ">>, <<"N", "f", "3", " ">>, <<" ">>} \cup ResultLiterals

\* Arbitrary short texts over the characters the decomposer and the driver
\* branch on.
MoveChars == {"e", "8", "x", "=", "Q", "+", "N"}
DriverChars == {"e", "4", " ", "(", "$", "[", eof}

Options == {<<>>, <<"WithLaxParsing">>}

ZeroToken == Token("ILLEGAL", <<>>)

\* No second call.
NoCall == [pc |-> "none"]

\* The state of a call of ParseString(i, o...) before its first step.
NewCall(i, o) ==
    [input |-> i, opts |-> o, strict |-> FALSE, rd |-> <<>>, pos |-> 0, nscan |-> 0,
     tok |-> ZeroToken, pc |-> "ParseString", key |-> ZeroToken, game |-> NewGame,
     rav |-> <<>>, out |-> [game |-> <<>>, err |-> NIL]]

\* No call of SplitMultiGame.
NoSplit == [pc |-> "none"]

InitWith(inputs) ==
    /\ other = NoCall
    /\ split = NoSplit
    /\ input \in inputs
    /\ opts \in Options
    /\ strict = FALSE
    /\ rd = <<>>
    /\ pos = 0
    /\ nscan = 0
    /\ tok = ZeroToken
    /\ pc = "ParseString"
    /\ key = ZeroToken
    /\ game = NewGame
    /\ rav = <<>>
    /\ out = [game |-> <<>>, err |-> NIL]

Init == InitWith(Samples \cup Scenarios \cup {Concat(c) : c \in SeqsUpTo(MovetextChunks, MaxChunks)})

Next ==
    \/ ParseString
    \/ Parse_EOF
    \/ Parse_LBRACKET
    \/ parseTagPair_key
    \/ parseTagPair_value
    \/ parseTagPair_close
    \/ Parse_COMMENT
    \/ Parse_IDENT_NUMBER
    \/ Parse_default
    \/ Parse_afterMovetext
    \/ parseRAV_close
    \/ parseMovetext_IDENT
    \/ parseMovetext_NAG
    \/ parseMovetext_ignore
    \/ parseMovetext_LPAREN
    \/ parseMovetext_default

Spec == Init /\ [][Next]_vars

InitError == InitWith(Samples \cup Scenarios \cup {Concat(c) : c \in SeqsUpTo(ErrorChunks, MaxChunks)})

SpecError == InitError /\ [][Next]_vars

InitResult == InitWith(Samples \cup Scenarios \cup {Concat(c) : c \in SeqsUpTo(ResultChunks, MaxChunks)})

SpecResult == InitResult /\ [][Next]_vars

InitFuzz ==
    InitWith(Samples \cup Scenarios \cup SeqsUpTo(MoveChars, MaxChars) \cup SeqsUpTo(DriverChars, MaxChars))

SpecFuzz == InitFuzz /\ [][Next]_vars

\* A call runs to its end: nothing suspends it.
InitFair ==
    InitWith(Samples \cup Scenarios
             \cup {Concat(c) : c \in SeqsUpTo(FairChunks, MaxFairChunks)})

FairSpec == InitFair /\ [][Next]_vars /\ WF_vars(Next)

(***************************************************************************)
(* grammar.ebnf: the move rule (its nag belongs to the next token).  Each  *)
(* rule is the set of the texts it generates.                              *)
(***************************************************************************)
Cat(A, B) == {a \o b : a \in A, b \in B}

Optional(A) == A \cup {<<>>}

piece == {<<"N">>, <<"B">>, <<"R">>, <<"Q">>, <<"K">>}

file == {<<Files[i]>> : i \in DOMAIN Files}

rank == {<<Ranks[i]>> : i \in DOMAIN Ranks}

destination == Cat(file, rank)

disambiguation == file \cup rank

promotion == Cat({<<"=">>}, piece)

check == {<<"+">>, <<"#">>}

castling == {<<"O", "-", "O">>, <<"O", "-", "O", "-", "O">>}

pawn_move == Cat(destination, Optional(promotion))

piece_move == Cat(Cat(piece, Optional(disambiguation)), destination)

pawn_capture == Cat(Cat(file, {<<"x">>}), Cat(destination, Optional(promotion)))

piece_capture == Cat(Cat(Cat(piece, Optional(disambiguation)), {<<"x">>}), destination)

move ==
    Cat(pawn_capture \cup piece_capture \cup pawn_move \cup piece_move \cup castling,
        Optional(check))

\* One move of the grammar and a result: "<move> *".
InitMove == InitWith(Samples \cup Scenarios \cup Cat(move, {<<" ", "*">>}))

SpecMove == InitMove /\ [][Next]_vars

\* Castling and what resembles it: every text of at most MaxCastleChars
\* characters of CastleChars, and the castling tokens with a promotion or a
\* check mark, each followed by a result.
CastleChars == {"O", "-", "+", "=", "Q"}

InitCastle ==
    InitWith(Samples \cup Scenarios
             \cup Cat(SeqsUpTo(CastleChars, MaxCastleChars)
                      \cup Cat(Cat(castling, Optional(promotion)), Optional(check)),
                      {<<" ", "*">>}))

SpecCastle == InitCastle /\ [][Next]_vars

\* Squares at and just beyond the edges of the board: every text of at most
\* MaxSquareChars characters of SquareChars, followed by a result.
SquareChars == {"a", "h", "i", "0", "1", "8", "9", "N", "x"}

InitSquare ==
    InitWith(Samples \cup Scenarios
             \cup Cat(SeqsUpTo(SquareChars, MaxSquareChars), {<<" ", "*">>}))

SpecSquare == InitSquare /\ [][Next]_vars

\* The tag section: tag pairs, one of them with the key of another, white
\* space and both kinds of comment, and what ends or breaks the section.
TagChunks ==
    {<<"[", "A", " ", "\"", "b", "\"", "]">>, <<"[", "B", "\"", "c", "\"", "]">>,
     <<"[", "A", "\"", "d", "\"", "]", "\n">>, <<" ">>, <<"{", "c", "}">>,
     <<";", "c", "\n">>, <<"[", "A", "]">>, <<"e", "4", " ">>, <<"*">>,
     <<"1", "-", "0">>}

InitTags == InitWith(Samples \cup Scenarios \cup {Concat(c) : c \in SeqsUpTo(TagChunks, MaxTagChunks)})

SpecTags == InitTags /\ [][Next]_vars

\* Numbered moves, variations, and the result token inside and outside a
\* variation.
RavChunks ==
    {<<"1", ".", " ", "e", "4", " ">>, <<"(", "1", ".", " ", "d", "4", " ">>,
     <<"*", ")", " ">>, <<")", " ">>, <<"1", ".", ".", ".", " ", "e", "5", " ">>,
     <<"*">>}

InitRav == InitWith(Samples \cup Scenarios \cup {Concat(c) : c \in SeqsUpTo(RavChunks, MaxRavChunks)})

SpecRav == InitRav /\ [][Next]_vars

\* Texts with byte-order marks at the start and elsewhere.
BomChunks ==
    {<<BOM>>, <<"e", "4", " ">>, <<"*">>, <<"[", "A", " ", "\"", "b", "\"", "]">>,
     <<" ">>}

InitBom == InitWith(Samples \cup Scenarios \cup {Concat(c) : c \in SeqsUpTo(BomChunks, MaxBomChunks)})

SpecBom == InitBom /\ [][Next]_vars

\* Tag pairs and movetext with both kinds of comment.
CommentChunks ==
    {<<"[", "A", " ", "\"", "b", "\"", "]">>, <<"e", "4", " ">>, <<"(", "d", "4", " ">>,
     <<")">>, <<"$", "7", " ">>, <<"{", "c", "}">>, <<";", "c", "\n">>, <<"*">>}

InitComment ==
    InitWith(Samples \cup Scenarios \cup {Concat(c) : c \in SeqsUpTo(CommentChunks, MaxCommentChunks)})

SpecComment == InitComment /\ [][Next]_vars

(***************************************************************************)
(* Two calls on two Parsers.  Each Parser owns its Scanner, its reader,    *)
(* its current token and its configuration, and each Parse its Game; the   *)
(* package holds no variable that a call writes (PieceSymbols is only      *)
(* read).  The scheduler may pass from one call to the other between any   *)
(* two steps: Switch exchanges the call that steps and the call that       *)
(* waits.                                                                  *)
(***************************************************************************)
\* A scheduler over Parsers that share one configuration: the Strict of
\* the call that steps stays where it is when the calls are exchanged.
SwitchSharedConfig ==
    /\ other.pc # "none"
    /\ UNCHANGED split
    /\ other' = [input |-> input, opts |-> opts, strict |-> other.strict, rd |-> rd,
                 pos |-> pos, nscan |-> nscan, tok |-> tok, pc |-> pc, key |-> key,
                 game |-> game, rav |-> rav, out |-> out]
    /\ input' = other.input /\ opts' = other.opts /\ strict' = strict
    /\ rd' = other.rd /\ pos' = other.pos /\ nscan' = other.nscan
    /\ tok' = other.tok /\ pc' = other.pc /\ key' = other.key
    /\ game' = other.game /\ rav' = other.rav /\ out' = other.out

Switch ==
    /\ other.pc # "none"
    /\ UNCHANGED split
    /\ other' = [input |-> input, opts |-> opts, strict |-> strict, rd |-> rd,
                 pos |-> pos, nscan |-> nscan, tok |-> tok, pc |-> pc, key |-> key,
                 game |-> game, rav |-> rav, out |-> out]
    /\ input' = other.input /\ opts' = other.opts /\ strict' = other.strict
    /\ rd' = other.rd /\ pos' = other.pos /\ nscan' = other.nscan
    /\ tok' = other.tok /\ pc' = other.pc /\ key' = other.key
    /\ game' = other.game /\ rav' = other.rav /\ out' = other.out

InitTwo ==
    /\ split = NoSplit
    /\ other \in {NewCall(i, o) : i \in Samples, o \in Options}
    /\ input \in Samples
    /\ opts \in Options
    /\ strict = FALSE
    /\ rd = <<>>
    /\ pos = 0
    /\ nscan = 0
    /\ tok = ZeroToken
    /\ pc = "ParseString"
    /\ key = ZeroToken
    /\ game = NewGame
    /\ rav = <<>>
    /\ out = [game |-> <<>>, err |-> NIL]

NextTwo == Next \/ Switch

SpecTwo == InitTwo /\ [][NextTwo]_vars

(***************************************************************************)
(* pgn.go: SplitMultiGame.  The functions of package strings it calls, on  *)
(* sequences of characters; the white space of strings.TrimSpace is kept   *)
(* to the four characters space, tab, line feed and carriage return.       *)
(***************************************************************************)
LF == "\n"
CR == "\r"

IsSpace(r) == r \in {" ", "\t", LF, CR}

\* No normalisation of the line endings.
ReplaceNothing(s) == s

\* strings.ReplaceAll(s, "\r\n", "\n")
RECURSIVE ReplaceAll(_)
ReplaceAll(s) ==
    IF s = <<>> THEN <<>>
    ELSE IF Len(s) >= 2 /\ s[1] = CR /\ s[2] = LF
    THEN <<LF>> \o ReplaceAll(SubSeq(s, 3, Len(s)))
    ELSE <<s[1]>> \o ReplaceAll(Tail(s))

\* strings.Split(s, "\n"): the pieces between the line feeds, one more than
\* there are line feeds.
RECURSIVE Split(_)
Split(s) ==
    IF \A i \in 1..Len(s) : s[i] # LF THEN <<s>>
    ELSE LET i == CHOOSE j \in 1..Len(s) : s[j] = LF /\ \A k \in 1..(j - 1) : s[k] # LF
         IN  <<SubSeq(s, 1, i - 1)>> \o Split(SubSeq(s, i + 1, Len(s)))

\* strings.TrimSpace(s)
RECURSIVE TrimSpace(_)
TrimSpace(s) ==
    IF s = <<>> THEN s
    ELSE IF IsSpace(s[1]) THEN TrimSpace(Tail(s))
    ELSE IF IsSpace(s[Len(s)]) THEN TrimSpace(SubSeq(s, 1, Len(s) - 1))
    ELSE s

\* strings.HasPrefix(s, p)
HasPrefix2(s, p) == Len(s) >= Len(p) /\ SubSeq(s, 1, Len(p)) = p

EventPrefix == <<"[", "E", "v", "e", "n", "t", " ">>

\* The test of a new game without the trimming of the line.
startsGameUntrimmed(line, currentGame) ==
    HasPrefix2(line, EventPrefix) /\ Len(currentGame) > 0

\* strings.HasPrefix(trimmedLine, "[Event ") && currentGame.Len() > 0
startsGame(line, currentGame) ==
    HasPrefix2(TrimSpace(line), EventPrefix) /\ Len(currentGame) > 0

\* gameStr := strings.TrimSpace(currentGame.String()); if gameStr != ""
\* { games = append(games, gameStr) }
appendGame(games, currentGame) ==
    IF TrimSpace(currentGame) # <<>> THEN Append(games, TrimSpace(currentGame)) ELSE games

NewSplit(p) ==
    [pc |-> "SplitMultiGame", pgn |-> p, lines |-> <<>>, i |-> 0,
     currentGame |-> <<>>, games |-> <<>>]

\* the normalisation of the line endings and strings.Split
SplitMultiGame_lines ==
    /\ split.pc = "SplitMultiGame"
    /\ split' = [split EXCEPT !.lines = Split(ReplaceAll(split.pgn)), !.i = 1, !.pc = "loop"]
    /\ UNCHANGED <<other, input, opts, strict, rd, pos, nscan, tok, pc, key, game, rav, out>>

\* one turn of the loop over the lines
SplitMultiGame_line ==
    /\ split.pc = "loop"
    /\ split.i <= Len(split.lines)
    /\ LET line == split.lines[split.i]
           cut == startsGame(line, split.currentGame)
       IN  split' = [split EXCEPT
                        !.games = IF cut THEN appendGame(@, split.currentGame) ELSE @,
                        !.currentGame = (IF cut THEN <<>> ELSE @) \o line \o <<LF>>,
                        !.i = @ + 1]
    /\ UNCHANGED <<other, input, opts, strict, rd, pos, nscan, tok, pc, key, game, rav, out>>

\* after the loop: the last game, and the return
SplitMultiGame_return ==
    /\ split.pc = "loop"
    /\ split.i > Len(split.lines)
    /\ split' = [split EXCEPT !.games = appendGame(@, split.currentGame), !.pc = "done"]
    /\ UNCHANGED <<other, input, opts, strict, rd, pos, nscan, tok, pc, key, game, rav, out>>

\* SplitMultiGame as a function of its argument: the loop from line i on,
\* and the call.
RECURSIVE splitLoop(_, _, _, _)
splitLoop(lines, i, currentGame, games) ==
    IF i > Len(lines) THEN appendGame(games, currentGame)
    ELSE IF startsGame(lines[i], currentGame)
    THEN splitLoop(lines, i + 1, lines[i] \o <<LF>>, appendGame(games, currentGame))
    ELSE splitLoop(lines, i + 1, currentGame \o lines[i] \o <<LF>>, games)

SplitMultiGame(pgn) == splitLoop(Split(ReplaceAll(pgn)), 1, <<>>, <<>>)

\* Short texts of game headers, other text, white space and line ends.
SplitChunks ==
    {EventPrefix \o <<"1">>, <<"[", "E", "v", "e", "n", "t">>, <<"x">>, <<" ">>,
     <<LF>>, <<CR>>}

\* The texts of TestSplitMultiGame, the names of the events and the moves
\* shortened to one character.
SplitSamples ==
    {<<>>,
     EventPrefix \o <<"1", LF, "x">>,
     EventPrefix \o <<"1", LF, "x", LF, LF>> \o EventPrefix \o <<"2", LF, "y">>,
     EventPrefix \o <<"1", CR, LF, "x", CR, LF, CR, LF>> \o EventPrefix \o <<"2", CR, LF, "y">>,
     <<" ", " ", LF, " ", CR, LF, " ", " ">>,
     <<LF, LF>> \o EventPrefix \o <<"1", LF, "x", LF, LF, LF>> \o EventPrefix \o <<"2", LF, "y", LF, LF>>}

InitSplit ==
    /\ split \in {NewSplit(p) : p \in SplitSamples \cup {Concat(c) : c \in SeqsUpTo(SplitChunks, MaxSplitChunks)}}
    /\ other = NoCall
    /\ input = <<>>
    /\ opts = <<>>
    /\ strict = FALSE
    /\ rd = <<>>
    /\ pos = 0
    /\ nscan = 0
    /\ tok = ZeroToken
    /\ pc = "none"
    /\ key = ZeroToken
    /\ game = NewGame
    /\ rav = <<>>
    /\ out = [game |-> <<>>, err |-> NIL]

NextSplit ==
    \/ SplitMultiGame_lines
    \/ SplitMultiGame_line
    \/ SplitMultiGame_return

SpecSplit == InitSplit /\ [][NextSplit]_vars

\* Promotions: a pawn move or a pawn capture to the last rank, "=", and up
\* to MaxPromoChars characters, then a result.
PromoChars == {"Q", "q", "P", "N", "K", "+", "#", "=", "8"}

InitPromo ==
    InitWith(Samples \cup Scenarios
             \cup Cat(Cat({<<"e", "8", "=">>, <<"e", "x", "d", "8", "=">>},
                          SeqsUpTo(PromoChars, MaxPromoChars)),
                      {<<" ", "*">>}))

SpecPromo == InitPromo /\ [][Next]_vars

\* Cores: every text of at most MaxCoreChars characters over a piece
\* letter, a file, a letter that is no file, a rank, a digit that is no
\* rank, and "x"; then a result.
CoreChars == {"Q", "d", "z", "1", "9", "x"}

InitCore ==
    InitWith(Samples \cup Scenarios
             \cup Cat(SeqsUpTo(CoreChars, MaxCoreChars), {<<" ", "*">>}))

SpecCore == InitCore /\ [][Next]_vars

\* The start of a move sequence: a tag pair, a move, bare parentheses, a
\* NAG, a move number with its dot, a comment, a result.
StartChunks ==
    {<<"[", "A", " ", "\"", "b", "\"", "]">>, <<"e", "4", " ">>, <<"(">>, <<")">>,
     <<"$", "1", " ">>, <<"1", ".">>, <<"{", "c", "}">>, <<"*">>}

InitStart ==
    InitWith(Samples \cup Scenarios
             \cup {Concat(c) : c \in SeqsUpTo(StartChunks, MaxStartChunks)})

SpecStart == InitStart /\ [][Next]_vars

\* Move numbers and dots as tokens of their own, among moves, a variation,
\* a NAG, a tag pair and a result.
NumberChunks ==
    {<<"e", "4", " ">>, <<"(", "d", "4", " ">>, <<")">>, <<"$", "7", " ">>,
     <<"1">>, <<".">>, <<"[", "A", " ", "\"", "b", "\"", "]">>, <<"1", "-", "0", " ">>}

InitNumber ==
    InitWith(Samples \cup Scenarios
             \cup {Concat(c) : c \in SeqsUpTo(NumberChunks, MaxNumberChunks)})

SpecNumber == InitNumber /\ [][Next]_vars

\* Movetext with the tokens that have no case in parseMovetext: a quoted
\* string, a right bracket, and the characters "\r" and "/", which the
\* scanner does not recognize.
StrayChunks ==
    {<<"e", "4", " ">>, <<"(", "d", "4", " ">>, <<")">>, <<"\"", "s", "\"">>, <<"]">>,
     <<"\r">>, <<"/">>, <<"*">>}

InitStray ==
    InitWith(Samples \cup Scenarios
             \cup {Concat(c) : c \in SeqsUpTo(StrayChunks, MaxStrayChunks)})

SpecStray == InitStray /\ [][Next]_vars

(***************************************************************************)
(* The Scanner on its own: NewScanner(strings.NewReader(input)), then      *)
(* calls of Scan, up to MaxOverRead of them after the text can hold no     *)
(* further token.  rd is the text of the reader, pos the number of         *)
(* characters read, tok the token of the last call.                        *)
(***************************************************************************)
ScanChars == {"e", "1", "-", "=", " ", "$", ".", eof}

\* Digit runs at and beyond the largest int, and an identifier of the same
\* length.
LongRuns ==
    {MaxInt64, <<"0", "0">> \o MaxInt64, SubSeq(MaxInt64, 1, 18) \o <<"8">>,
     MaxInt64 \o <<"0">>, SubSeq(MaxInt64, 1, 18) \o <<"x">>,
     <<"$">> \o MaxInt64 \o <<"0", " ", "e", "4">>}

NewScanner ==
    /\ pc = "NewScanner"
    /\ rd' = input
    /\ pc' = "Scan"
    /\ UNCHANGED <<split, other, input, opts, strict, pos, nscan, tok, key, game, rav, out>>

Scanner_Scan ==
    /\ pc = "Scan"
    /\ nscan < Len(rd) + 1 + MaxOverRead
    /\ scan
    /\ UNCHANGED <<split, other, input, opts, strict, rd, pc, key, game, rav, out>>

InitScanner ==
    /\ input \in Samples \cup Scenarios \cup LongRuns \cup SeqsUpTo(ScanChars, MaxScanChars)
    /\ other = NoCall
    /\ split = NoSplit
    /\ opts = <<>>
    /\ strict = FALSE
    /\ rd = <<>>
    /\ pos = 0
    /\ nscan = 0
    /\ tok = ZeroToken
    /\ pc = "NewScanner"
    /\ key = ZeroToken
    /\ game = NewGame
    /\ rav = <<>>
    /\ out = [game |-> <<>>, err |-> NIL]

NextScanner ==
    \/ NewScanner
    \/ Scanner_Scan

SpecScanner == InitScanner /\ [][NextScanner]_vars

\* NAGs with and without digits, glued to what follows or not.
NagChunks ==
    {<<"e", "4", " ">>, <<"$">>, <<"$", "0", " ">>, <<"$", "1", "2">>, <<" ">>,
     <<"(", "d", "4", " ">>, <<")">>, <<"*">>}

InitNag ==
    InitWith(Samples \cup Scenarios
             \cup {Concat(c) : c \in SeqsUpTo(NagChunks, MaxNagChunks)})

SpecNag == InitNag /\ [][Next]_vars

(***************************************************************************)
(* Parse called again on the same Parser: a new Game, a new loop, and the  *)
(* Scanner and the current token as the call before left them.  out keeps  *)
(* what the last call returned.                                            *)
(***************************************************************************)
Parse_again ==
    /\ pc = "done"
    /\ game' = NewGame
    /\ rav' = <<>>
    /\ pc' = "Parse"
    /\ UNCHANGED <<split, other, input, opts, strict, rd, pos, nscan, tok, out, key>>

\* Several games in one text.
AgainChunks ==
    {<<"e", "4", " ">>, <<"*">>, <<"1", "-", "0", " ">>, <<"[", "A", " ", "\"", "b", "\"", "]">>,
     <<"(", "d", "4", " ">>, <<")">>}

InitAgain ==
    InitWith(Samples \cup Scenarios
             \cup {Concat(c) : c \in SeqsUpTo(AgainChunks, MaxAgainChunks)})

NextAgain == Next \/ Parse_again

SpecAgain == InitAgain /\ [][NextAgain]_vars

\* Tag pairs with the same key, with keys that differ in the case of a
\* letter only, and with a key that extends another; then a game body.
KeyChunks ==
    {<<"[", "A", "b", " ", "\"", "1", "\"", "]">>, <<"[", "A", "b", "\"", "2", "\"", "]">>,
     <<"[", "a", "b", " ", "\"", "3", "\"", "]">>, <<"[", "A", "B", "\"", "1", "\"", "]">>,
     <<"[", "A", "\"", "4", "\"", "]">>, <<" ">>, <<"e", "4", " ">>, <<"*">>}

InitKeys ==
    InitWith(Samples \cup Scenarios
             \cup {Concat(c) : c \in SeqsUpTo(KeyChunks, MaxKeyChunks)})

SpecKeys == InitKeys /\ [][Next]_vars

(***************************************************************************)
(* The token stream of the reader, as the Scanner alone yields it: the     *)
(* tokens up to and including the first EOF token.  The statements below   *)
(* describe the text by it, independently of the driver.                   *)
(***************************************************************************)
RECURSIVE TokensFrom(_, _)
TokensFrom(s, i) ==
    LET t == Scan(s, i)
    IN  IF t.tok.Type = "EOF" THEN <<t.tok>> ELSE <<t.tok>> \o TokensFrom(s, t.pos)

T == TokensFrom(rd, 0)

\* The index of the first token after the leading tag pairs and comments.
RECURSIVE TagEnd(_, _)
TagEnd(ts, i) ==
    IF ts[i].Type = "COMMENT" THEN TagEnd(ts, i + 1)
    ELSE IF /\ ts[i].Type = "LBRACKET"
            /\ i + 4 <= Len(ts)
            /\ ts[i + 1].Type = "IDENT"
            /\ ts[i + 2].Type = "STRING"
            /\ ts[i + 3].Type = "RBRACKET"
    THEN TagEnd(ts, i + 4)
    ELSE i

\* Token k is a move token: an identifier that is no result.
IsMoveTok(ts, k) == ts[k].Type = "IDENT" /\ ~isResult(ts[k])

\* The nesting depth of token k: the parentheses opened and not closed by
\* the tokens before it.
Depth(ts, k) ==
    Cardinality({j \in 1..(k - 1) : ts[j].Type = "LPAREN"})
    - Cardinality({j \in 1..(k - 1) : ts[j].Type = "RPAREN"})

\* Token k lies in the same move sequence as the earlier token j, with no
\* move of that sequence from j + 1 to k - 1.
Follows(ts, j, k) ==
    /\ j < k
    /\ Depth(ts, j) = Depth(ts, k)
    /\ \A m \in (j + 1)..k : Depth(ts, m) >= Depth(ts, j)
    /\ \A m \in (j + 1)..(k - 1) : ~(IsMoveTok(ts, m) /\ Depth(ts, m) = Depth(ts, j))

\* The indices in lo..hi that satisfy Test, in increasing order.
Indices(lo, hi, Test(_)) == SelectSeq([i \in 1..(hi - lo + 1) |-> lo + i - 1], Test)

\* A move without its annotations.
Bare(m) == [m EXCEPT !.Variations = <<>>, !.NAGs = <<>>]

\* The text is well-formed tag pairs and movetext elements up to the end
\* of the input, with no result token in the main line.
WellFormedNoResult(ts) ==
    LET a == TagEnd(ts, 1)
    IN  /\ eof \notin Range(rd)
        /\ \A k \in a..(Len(ts) - 1) :
              \/ ts[k].Type \in {"NUMBER", "COMMENT", "RPAREN"}
              \/ ts[k].Type = "DOT" /\ k > a /\ ts[k - 1].Type \in {"NUMBER", "DOT"}
              \/ IsMoveTok(ts, k) /\ parseMoveFromRaw(ts[k].Literal).ok
              \/ /\ ts[k].Type = "NAG" /\ AtoiOk(ts[k].Literal)
                 /\ \E j \in a..(k - 1) : IsMoveTok(ts, j) /\ Follows(ts, j, k)
              \/ /\ ts[k].Type = "LPAREN"
                 /\ \E j \in a..(k - 1) : IsMoveTok(ts, j) /\ Follows(ts, j, k)
        /\ \A k \in a..Len(ts) : Depth(ts, k) >= 0
        /\ Depth(ts, Len(ts)) = 0

\* The main-line moves of the text, in input order.
MainLine(ts) ==
    LET a == TagEnd(ts, 1)
        Main(k) == IsMoveTok(ts, k) /\ Depth(ts, k) = 0
        idx == Indices(a, Len(ts) - 1, Main)
    IN  [i \in 1..Len(idx) |-> parseMoveFromRaw(ts[idx[i]].Literal).move]

Returned == pc = "done" /\ out.game # <<>>
Failed == pc = "done" /\ out.game = <<>> /\ out.err # NIL

(***************************************************************************)
(* C1.  In strict mode, which is the mode when no option is given: once    *)
(* at least one move has been parsed and the main line has reached the    *)
(* end of the input with no result token, the parse returns an error and  *)
(* no Game.                                                                *)
(***************************************************************************)
C1_StrictNeedsResult ==
    /\ (pc # "ParseString" /\ opts = <<>>) => strict
    /\ (pc = "done" /\ strict /\ rav = <<>> /\ tok.Type = "EOF" /\ Len(game.Moves) > 0)
          => Failed

C1_Witness ==
    /\ pc = "done" /\ opts = <<>> /\ strict /\ rav = <<>> /\ tok.Type = "EOF"
    /\ Len(game.Moves) >= 2 /\ game.Moves[1].Variations # <<>>
    /\ Failed

(***************************************************************************)
(* C2.  In lax mode, a text of well-formed tag pairs and movetext whose    *)
(* main line reaches the end of the input with no result token parses     *)
(* successfully: the Game holds the main-line moves in input order and an *)
(* empty Result.                                                           *)
(***************************************************************************)
C2_LaxAcceptsNoResult ==
    (pc = "done" /\ ~strict /\ WellFormedNoResult(T)) =>
        /\ Returned
        /\ out.err = NIL
        /\ out.game[1].Result = <<>>
        /\ Len(out.game[1].Moves) = Len(MainLine(T))
        /\ \A i \in 1..Len(MainLine(T)) : Bare(out.game[1].Moves[i]) = MainLine(T)[i]

C2_Witness ==
    /\ pc = "done" /\ ~strict /\ WellFormedNoResult(T) /\ Returned
    /\ Len(out.game[1].Moves) >= 2
    /\ out.game[1].Moves[1].To # out.game[1].Moves[2].To
    /\ out.game[1].Moves[1].Variations # <<>>

(***************************************************************************)
(* C3.  For each of the four result literals, a text of one or more valid  *)
(* moves followed by the literal parses successfully, in either mode, and  *)
(* the Game's Result is that literal.                                      *)
(***************************************************************************)
\* s is one or more valid moves, whitespace, and then the literal r.
MovesThen(s, r) ==
    LET n == Len(s) - Len(r)
    IN  /\ n >= 1
        /\ eof \notin Range(s)
        /\ SubSeq(s, n + 1, Len(s)) = r
        /\ IsWhitespace(s[n])
        /\ LET ts == TokensFrom(SubSeq(s, 1, n), 0)
           IN  /\ Len(ts) >= 2
               /\ \A k \in 1..(Len(ts) - 1) :
                      IsMoveTok(ts, k) /\ parseMoveFromRaw(ts[k].Literal).ok

C3_ResultLiterals ==
    \A r \in ResultLiterals :
        (pc = "done" /\ MovesThen(rd, r)) =>
            (Returned /\ out.err = NIL /\ out.game[1].Result = r)

\* What the code does: the three literals without "/" are results.
C3_LiteralsWithoutSlash ==
    \A r \in ResultLiterals \ {<<"1", "/", "2", "-", "1", "/", "2">>} :
        (pc = "done" /\ MovesThen(rd, r)) =>
            (Returned /\ out.err = NIL /\ out.game[1].Result = r)

(***************************************************************************)
(* C4.  ParseString never panics, and what it returns is either a Game     *)
(* and no error, or an error and no Game.                                  *)
(***************************************************************************)
C4_NoPanicOneResult ==
    /\ pc # "panic"
    /\ pc = "done" => \/ out.game # <<>> /\ out.err = NIL
                      \/ out.game = <<>> /\ out.err # NIL
    /\ pc # "done" => out.game = <<>> /\ out.err = NIL

\* The decomposer has met a token too short to hold a destination.
C4_Witness ==
    /\ Failed
    /\ out.err = "invalid move"
    /\ Len(stripPromotionOrSuffix(tok.Literal).movetext) < 2

(***************************************************************************)
(* C5.  Every parse ends.  Each iteration of the loops of Parse and        *)
(* parseMovetext, each step of parseTagPair and each half of parseRAV      *)
(* returns or consumes at least one token (entering the movetext is the    *)
(* one step of Parse that does neither, and it happens once); every call   *)
(* of Scan consumes at least one character unless it yields EOF; and       *)
(* every call of ParseString reaches its return.                           *)
(***************************************************************************)
\* What is left to read: the unread characters and the current token.
Remaining == 2 * (Len(rd) - pos) + (IF tok.Type = "EOF" THEN 0 ELSE 2)
             + (IF pc = "Parse" THEN 1 ELSE 0)

C5_Progress ==
    /\ pc # "ParseString" => (pc' = "done" \/ Remaining' < Remaining)
    /\ nscan' # nscan => (pos' > pos \/ tok'.Type = "EOF")

C5_Terminates == [][C5_Progress]_vars /\ <>(pc = "done")

C5_Witness == pc = "done" /\ nscan >= 6 /\ Len(rav) >= 1

(***************************************************************************)
(* C6.  A move token that the decomposer rejects is never skipped: when a  *)
(* Game is returned, every identifier the driver consumed in the movetext  *)
(* (main line or variation) is a valid move, and each is a move of the     *)
(* Game.                                                                   *)
(***************************************************************************)
RECURSIVE Preorder(_)
RECURSIVE PreorderAll(_)
\* The moves of a sequence and of its variations, in input order.
Preorder(moves) ==
    IF moves = <<>> THEN <<>>
    ELSE <<Head(moves)>> \o PreorderAll(Head(moves).Variations) \o Preorder(Tail(moves))

PreorderAll(vs) == IF vs = <<>> THEN <<>> ELSE Preorder(Head(vs)) \o PreorderAll(Tail(vs))

\* The identifiers the driver has consumed in the movetext.
ConsumedIdents ==
    LET Id(k) == T[k].Type = "IDENT"
    IN  Indices(TagEnd(T, 1), nscan - 1, Id)

C6_NoSkippedMove ==
    Returned =>
        /\ \A i \in 1..Len(ConsumedIdents) :
              /\ ~isResult(T[ConsumedIdents[i]])
              /\ parseMoveFromRaw(T[ConsumedIdents[i]].Literal).ok
        /\ Len(Preorder(out.game[1].Moves)) = Len(ConsumedIdents)

\* A rejected move inside a variation fails the parse.
C6_Witness ==
    /\ Failed /\ out.err = "invalid move" /\ rav # <<>>
    /\ ~strict

(***************************************************************************)
(* C7.  After a successful parse, the NAGs of every move (main line and    *)
(* variations) are the values of the NAG tokens that follow it in its own  *)
(* sequence before the next move of that sequence, in input order, also    *)
(* across a variation or a comment.                                        *)
(***************************************************************************)
ExpectedNAGs(ts, k, last) ==
    LET Mine(j) == ts[j].Type = "NAG" /\ Follows(ts, k, j)
        idx == Indices(k + 1, last, Mine)
    IN  [i \in 1..Len(idx) |-> AtoiVal(ts[idx[i]].Literal)]

C7_NAGsAttach ==
    Returned =>
        LET flat == Preorder(out.game[1].Moves)
        IN  /\ Len(flat) = Len(ConsumedIdents)
            /\ \A i \in 1..Len(flat) :
                  flat[i].NAGs = ExpectedNAGs(T, ConsumedIdents[i], nscan - 1)

\* A NAG after a variation, and two NAGs in a row after a comment.
C7_Witness ==
    /\ Returned
    /\ \E i \in 1..Len(out.game[1].Moves) :
          /\ out.game[1].Moves[i].Variations # <<>>
          /\ Len(out.game[1].Moves[i].NAGs) >= 2
          /\ out.game[1].Moves[i].NAGs[1] # out.game[1].Moves[i].NAGs[2]

(***************************************************************************)
(* C8.  Each parenthesized group after a move becomes one entry of that    *)
(* move's Variations, in input order; its moves are not in the enclosing   *)
(* sequence; groups nested to depth d give Variations nested to depth d.   *)
(***************************************************************************)
\* The index of the right parenthesis that closes the one at l.
Match(ts, l) == CHOOSE r \in (l + 1)..Len(ts) :
                    /\ ts[r].Type = "RPAREN"
                    /\ Depth(ts, r + 1) = Depth(ts, l)
                    /\ \A m \in (l + 1)..r : Depth(ts, m) > Depth(ts, l)

\* The move sequence the tokens lo..hi spell, without NAGs.
RECURSIVE ExpectedMoves(_, _, _)
ExpectedMoves(ts, lo, hi) ==
    LET Top(k) == IsMoveTok(ts, k) /\ Depth(ts, k) = Depth(ts, lo)
        mv == Indices(lo, hi, Top)
        Groups(k) == LET Open(l) == ts[l].Type = "LPAREN" /\ Follows(ts, k, l)
                     IN  Indices(k + 1, hi, Open)
    IN  [i \in 1..Len(mv) |->
            [parseMoveFromRaw(ts[mv[i]].Literal).move EXCEPT
                !.Variations = [g \in 1..Len(Groups(mv[i])) |->
                    ExpectedMoves(ts, Groups(mv[i])[g] + 1,
                                  Match(ts, Groups(mv[i])[g]) - 1)]]]

RECURSIVE StripNAGs(_)
StripNAGs(moves) ==
    [i \in 1..Len(moves) |->
        [moves[i] EXCEPT !.NAGs = <<>>,
                         !.Variations = [g \in 1..Len(@) |-> StripNAGs(@[g])]]]

C8_Variations ==
    Returned => StripNAGs(out.game[1].Moves) = ExpectedMoves(T, TagEnd(T, 1), nscan - 1)

\* Two groups after one move, one of them with a group nested in it.
C8_Witness ==
    /\ Returned
    /\ \E i \in 1..Len(out.game[1].Moves) :
          LET v == out.game[1].Moves[i].Variations
          IN  /\ Len(v) >= 2
              /\ \E g \in 1..Len(v) : v[g] # <<>> /\ v[g][1].Variations # <<>>

(***************************************************************************)
(* C9.  An opening parenthesis that is never closed is an error in both    *)
(* modes: a parse that ends with more parentheses opened than closed       *)
(* returns an error and no Game.                                           *)
(***************************************************************************)
C9_UnclosedParen == (pc = "done" /\ Depth(T, nscan) > 0) => Failed

\* In lax mode, a variation cut short by a left bracket.
C9_Witness ==
    /\ Failed /\ ~strict /\ rav # <<>> /\ tok.Type = "LBRACKET"
    /\ out.err = "expected ')' to close variation"

(***************************************************************************)
(* C10.  A right parenthesis in the main line, with no open parenthesis    *)
(* to match, is an error in strict and in lax mode.                        *)
(***************************************************************************)
C10_StrayRParen ==
    (pc = "done" /\ tok.Type = "RPAREN" /\ Depth(T, nscan) = 0) => Failed

\* What the code does: the error is returned in strict mode only.
C10_StrayRParenStrict ==
    (pc = "done" /\ strict /\ tok.Type = "RPAREN" /\ Depth(T, nscan) = 0) => Failed

\* The driver reads the token stream in order: the current token is the
\* nscan-th token.
TokenInv == pc # "ParseString" => (nscan <= Len(T) /\ tok = T[nscan])

(***************************************************************************)
(* C11.  Every move token of the grammar is decomposed, and the Move has   *)
(* the fields the token encodes: the piece of the leading letter or Pawn   *)
(* (King for a castling token), IsCapture iff "x" occurs, IsCheck iff the  *)
(* token ends in "+", IsMate iff it ends in "#", the promotion piece       *)
(* after "=" or Pawn, the destination square, and the file or rank hint    *)
(* in From (0 where there is none).                                        *)
(***************************************************************************)
\* What the text w of a token encodes.  The destination is the last file
\* letter followed by a rank digit; the hint is the file or rank character
\* in front of it, or in front of the "x" in front of it.
LeadingPiece(w) == IF w[1] \in DOMAIN PieceSymbols THEN PieceSymbols[w[1]] ELSE "Pawn"

IsDestAt(w, k) == k >= 1 /\ k < Len(w) /\ IsFile(w[k]) /\ IsRank(w[k + 1])

DestAt(w) == CHOOSE k \in 1..Len(w) :
                 IsDestAt(w, k) /\ \A j \in (k + 1)..Len(w) : ~IsDestAt(w, j)

HintAt(w) == IF DestAt(w) > 1 /\ w[DestAt(w) - 1] = "x" THEN DestAt(w) - 2
                                                         ELSE DestAt(w) - 1

EncodedTo(w) ==
    IF \E k \in 1..Len(w) : IsDestAt(w, k)
    THEN Square(IndexIn(Files, w[DestAt(w)]), IndexIn(Ranks, w[DestAt(w) + 1]))
    ELSE Square(0, 0)

EncodedFrom(w) ==
    IF (\E k \in 1..Len(w) : IsDestAt(w, k)) /\ HintAt(w) >= 1
    THEN Square(IF IsFile(w[HintAt(w)]) THEN IndexIn(Files, w[HintAt(w)]) ELSE 0,
                IF IsRank(w[HintAt(w)]) THEN IndexIn(Ranks, w[HintAt(w)]) ELSE 0)
    ELSE Square(0, 0)

EncodedPromotion(w) ==
    IF "=" \in Range(w) THEN PieceSymbols[w[Index(w, "=") + 2]] ELSE "Pawn"

\* The move m has the fields the token w encodes, p being its piece.
Encodes(m, w, p) ==
    /\ m.Piece = p
    /\ m.IsCapture = ("x" \in Range(w))
    /\ m.IsCheck = (w[Len(w)] = "+")
    /\ m.IsMate = (w[Len(w)] = "#")
    /\ m.Promotion = EncodedPromotion(w)
    /\ m.To = EncodedTo(w)
    /\ m.From = EncodedFrom(w)

\* The text is one move token of the grammar and a result.
OneGrammarMove == pc = "done" /\ Len(T) = 3 /\ T[1].Literal \in move /\ T[2].Type = "ASTERISK"

IsCastling(w) == \E c \in castling : Len(w) >= Len(c) /\ SubSeq(w, 1, Len(c)) = c

\* As stated: the piece is that of the leading letter, Pawn if there is none.
C11_GrammarMovesLeadingPiece ==
    OneGrammarMove =>
        /\ Returned
        /\ Len(out.game[1].Moves) = 1
        /\ Encodes(out.game[1].Moves[1], T[1].Literal, LeadingPiece(T[1].Literal))

\* As the code has it: a castling token is a King move.
C11_GrammarMoves ==
    OneGrammarMove =>
        /\ Returned
        /\ Len(out.game[1].Moves) = 1
        /\ Encodes(out.game[1].Moves[1], T[1].Literal,
                   IF IsCastling(T[1].Literal) THEN "King" ELSE LeadingPiece(T[1].Literal))

\* A piece capture with a file hint, a rank that is not the first, and check.
C11_Witness ==
    /\ OneGrammarMove /\ Returned
    /\ out.game[1].Moves[1].Piece = "Rook"
    /\ out.game[1].Moves[1].IsCapture /\ out.game[1].Moves[1].IsCheck
    /\ out.game[1].Moves[1].From.File = 3
    /\ out.game[1].Moves[1].To = Square(5, 7)

(***************************************************************************)
(* C12.  A move whose core (the token without its promotion and its check  *)
(* or mate suffix) is exactly O-O or O-O-O is a King move with the         *)
(* kingside (queenside) castling flag and not the other, From and To the   *)
(* zero square, no capture, and IsCheck and IsMate as the suffix says; no  *)
(* other core sets a castling flag.                                        *)
(***************************************************************************)
\* The text in front of "=", or else the token without a final "+" or "#".
TextCore(w) ==
    IF "=" \in Range(w) THEN SubSeq(w, 1, Index(w, "="))
    ELSE IF w[Len(w)] \in {"+", "#"} THEN SubSeq(w, 1, Len(w) - 1)
    ELSE w

\* The text behind the promotion piece, or else the final "+" or "#".
TextSuffix(w) ==
    IF "=" \in Range(w) THEN SubSeq(w, Index(w, "=") + 3, Len(w))
    ELSE IF w[Len(w)] \in {"+", "#"} THEN <<w[Len(w)]>>
    ELSE <<>>

CastlingMove(m, w, kingside) ==
    /\ m.Piece = "King"
    /\ m.IsKingsideCastle = kingside
    /\ m.IsQueensideCastle = ~kingside
    /\ m.From = Square(0, 0) /\ m.To = Square(0, 0)
    /\ ~m.IsCapture
    /\ m.IsCheck = (TextSuffix(w) = <<"+">>)
    /\ m.IsMate = (TextSuffix(w) = <<"#">>)

\* The text is one castling token, with a well-formed promotion if it has
\* one, and a result.
OneCastlingToken ==
    /\ pc = "done" /\ Len(T) = 3 /\ T[1].Type = "IDENT" /\ T[2].Type = "ASTERISK"
    /\ TextCore(T[1].Literal) \in castling
    /\ "=" \in Range(T[1].Literal) =>
          /\ Index(T[1].Literal, "=") + 2 <= Len(T[1].Literal)
          /\ T[1].Literal[Index(T[1].Literal, "=") + 2] \in DOMAIN PieceSymbols

C12_Castling ==
    /\ OneCastlingToken => Returned
    /\ Returned =>
          LET flat == Preorder(out.game[1].Moves)
          IN  /\ Len(flat) = Len(ConsumedIdents)
              /\ \A i \in 1..Len(flat) :
                    LET w == T[ConsumedIdents[i]].Literal
                    IN  /\ TextCore(w) = <<"O", "-", "O">> => CastlingMove(flat[i], w, TRUE)
                        /\ TextCore(w) = <<"O", "-", "O", "-", "O">>
                              => CastlingMove(flat[i], w, FALSE)
                        /\ TextCore(w) \notin castling
                              => ~flat[i].IsKingsideCastle /\ ~flat[i].IsQueensideCastle

\* Queenside castling with mate.
C12_Witness ==
    /\ OneCastlingToken /\ Returned
    /\ out.game[1].Moves[1].IsQueensideCastle /\ out.game[1].Moves[1].IsMate

(***************************************************************************)
(* C13.  In every Move of a returned Game (main line and variations) the   *)
(* files and ranks of To and From lie in 0..7; every move token the        *)
(* driver consumed that is no castling has a core ending in a file letter  *)
(* a-h and a rank digit 1-8, and To is that square, File = letter - 'a'    *)
(* and Rank = digit - '1': a token ending otherwise fails the parse.       *)
(***************************************************************************)
OnBoard(sq) == sq.File \in 0..7 /\ sq.Rank \in 0..7

C13_SquaresInRange ==
    Returned =>
        LET flat == Preorder(out.game[1].Moves)
        IN  /\ Len(flat) = Len(ConsumedIdents)
            /\ \A i \in 1..Len(flat) :
                  LET c == TextCore(T[ConsumedIdents[i]].Literal)
                  IN  /\ OnBoard(flat[i].To) /\ OnBoard(flat[i].From)
                      /\ c \notin castling =>
                            /\ Len(c) >= 2
                            /\ IsFile(c[Len(c) - 1]) /\ IsRank(c[Len(c)])
                            /\ flat[i].To = Square(IndexIn(Files, c[Len(c) - 1]),
                                                   IndexIn(Ranks, c[Len(c)]))

\* A destination one rank beyond the board is rejected.
C13_Witness ==
    /\ Failed /\ out.err = "invalid move"
    /\ tok.Literal = <<"N", "h", "9">>

(***************************************************************************)
(* C14.  A text of nothing but well-formed tag pairs, white space and      *)
(* comments (the empty text included) is parsed with success in strict and *)
(* in lax mode; the Game returned has a Tags map with exactly the keys     *)
(* given, each with the value of its pair (of its last pair, when a key is *)
(* given twice: the keys of a map are unique), no move and an empty       *)
(* Result.                                                                 *)
(***************************************************************************)
TagsOnly == TagEnd(T, 1) = Len(T)

TagStarts == {k \in 1..Len(T) : T[k].Type = "LBRACKET"}

\* The map the tag pairs that start at the indices in starts spell.
TagsOf(starts) ==
    [n \in {T[k + 1].Literal : k \in starts} |->
        LET last == CHOOSE k \in starts :
                        /\ T[k + 1].Literal = n
                        /\ \A j \in starts : T[j + 1].Literal = n => j <= k
        IN  T[last + 2].Literal]

GivenTags == TagsOf(TagStarts)

C14_TagsOnly ==
    (pc = "done" /\ TagsOnly) =>
        /\ Returned
        /\ out.err = NIL
        /\ DOMAIN out.game[1].Tags = {T[k + 1].Literal : k \in TagStarts}
        /\ out.game[1].Tags = GivenTags
        /\ out.game[1].Moves = <<>>
        /\ out.game[1].Result = <<>>

\* Two tag pairs and a comment, in strict mode.
C14_Witness ==
    /\ Returned /\ TagsOnly /\ strict
    /\ Cardinality(DOMAIN out.game[1].Tags) = 2
    /\ \E k \in 2..Len(T) : T[k].Type = "COMMENT"

(***************************************************************************)
(* C15.  A left bracket met in the main line after at least one move and   *)
(* before any result token ends the parse: in lax mode with success, the   *)
(* Game holding the moves parsed so far, an empty Result and the tags of   *)
(* the tag section only (the tag pairs after the movetext are not added);  *)
(* in strict mode with an error and no Game.                               *)
(***************************************************************************)
BracketAfterMoves ==
    /\ pc = "done" /\ nscan >= 1
    /\ T[nscan].Type = "LBRACKET"
    /\ Depth(T, nscan) = 0
    /\ game.Moves # <<>>

LeadingTags == TagsOf({k \in TagStarts : k < TagEnd(T, 1)})

C15_WitnessStrict == BracketAfterMoves /\ strict /\ Failed

(***************************************************************************)
(* The steps of the driver and the driver as a function agree: a call that *)
(* has returned has returned what ParseStringOf gives for its arguments.   *)
(***************************************************************************)
StepsAgree == pc = "done" => out = ParseStringOf(input, opts)

(***************************************************************************)
(* C16.  Comments are transparent.  A comment, a block in braces or a ";"  *)
(* line, put before the first tag pair, between two tag pairs, between the *)
(* tag section and the movetext, between two tokens of the movetext (main  *)
(* line or variation) or after the last token, changes neither the Game    *)
(* returned nor whether the parse fails; so a NAG or a variation after the *)
(* comment still goes to the move before the comment.                      *)
(***************************************************************************)
\* The positions of the reader after each token, the end marker included.
RECURSIVE EndsFrom(_, _)
EndsFrom(s, i) ==
    LET t == Scan(s, i)
    IN  IF t.tok.Type = "EOF" THEN <<t.pos>> ELSE <<t.pos>> \o EndsFrom(s, t.pos)

\* The position after token k; 0 is the start of the text.
EndOf(k) == IF k = 0 THEN 0 ELSE EndsFrom(rd, 0)[k]

\* After token k the text is not inside a tag pair of the tag section.
CommentSlots ==
    {k \in 0..(Len(T) - 1) :
        k >= 1 /\ k < TagEnd(T, 1) => T[k].Type \in {"RBRACKET", "COMMENT"}}

CommentTexts == {<<"{", "c", "}">>, <<";", "c", "\n">>}

InsertAt(s, p, c) == SubSeq(s, 1, p) \o c \o SubSeq(s, p + 1, Len(s))

\* The Game and whether the parse failed.
Outcome(r) == [game |-> r.game, failed |-> r.err # NIL]

C16_CommentsTransparent ==
    pc = "done" =>
        \A k \in CommentSlots : \A c \in CommentTexts :
            Outcome(Parse(InsertAt(rd, EndOf(k), c), 0, NewGame, strict)) = Outcome(out)

\* A move, a comment, then a NAG: the NAG is on the move, and a further
\* comment on either side of the NAG changes nothing.
C16_Witness ==
    /\ Returned
    /\ nscan >= 4
    /\ IsMoveTok(T, 1) /\ T[2].Type = "COMMENT" /\ T[3].Type = "NAG"
    /\ {2, 3} \subseteq CommentSlots
    /\ out.game[1].Moves[1].NAGs = <<AtoiVal(T[3].Literal)>>

(***************************************************************************)
(* C17.  A variation may end with a result token before its right          *)
(* parenthesis (rav ::= "(" element* result? ")"): a text that parses with *)
(* success once such a result token is taken out parses with success as it *)
(* is, to the same Game, the variation holding the moves before the inner  *)
(* result.                                                                 *)
(***************************************************************************)
\* Token k is a result token that ends a variation.
InnerResult(k) ==
    /\ k >= TagEnd(T, 1) /\ k < Len(T)
    /\ isResult(T[k])
    /\ Depth(T, k) >= 1
    /\ T[k + 1].Type = "RPAREN"

\* The text without token k and the white space before it.
WithoutToken(k) == SubSeq(rd, 1, EndOf(k - 1)) \o SubSeq(rd, EndOf(k) + 1, Len(rd))

C17_ResultInVariation ==
    pc = "done" =>
        \A k \in 1..Len(T) :
            (InnerResult(k) /\ Parse(WithoutToken(k), 0, NewGame, strict).err = NIL)
                => out = Parse(WithoutToken(k), 0, NewGame, strict)

\* What the driver does with the text of the claim: parseRAV finds the
\* result token where it wants the right parenthesis.
C17_Rejected ==
    /\ Failed /\ out.err = "expected ')' to close variation"
    /\ InnerResult(nscan)
    /\ Parse(WithoutToken(nscan), 0, NewGame, strict).err = NIL
    /\ Len(game.Moves) = 1 /\ rav = <<ExpectedMoves(T, TagEnd(T, 1), nscan - 1)[1].Variations[1]>>
    /\ T[Len(T) - 1].Type = "ASTERISK" /\ Depth(T, Len(T) - 1) = 0

(***************************************************************************)
(* C18.  A game body with no moves is accepted (game ::= tag_pair*         *)
(* movetext_body, movetext_body ::= element* result?): a text of zero or   *)
(* more tag pairs followed directly by a result token and nothing else     *)
(* parses with success, with the tags given, no move, and the token as     *)
(* Result.                                                                 *)
(***************************************************************************)
\* The tag section is followed by a result token that ends the text.
ResultOnly ==
    /\ TagEnd(T, 1) + 1 = Len(T)
    /\ isResult(T[TagEnd(T, 1)])

C18_NoMoves ==
    (pc = "done" /\ ResultOnly) =>
        /\ Returned
        /\ out.game[1].Tags = LeadingTags
        /\ out.game[1].Moves = <<>>
        /\ out.game[1].Result = T[TagEnd(T, 1)].Literal

\* What the driver does with a tag pair followed by "*": the asterisk is
\* in no case of the switch of Parse.
C18_Rejected ==
    /\ ResultOnly /\ Failed
    /\ out.err = "unexpected token at start of game"
    /\ tok.Type = "ASTERISK"
    /\ DOMAIN game.Tags # {}

\* The results that scan as identifiers are accepted with no move.
C18_AcceptedIdent ==
    /\ ResultOnly /\ Returned
    /\ out.game[1].Moves = <<>>
    /\ out.game[1].Result = <<"1", "-", "0">>

(***************************************************************************)
(* C19.  The parse stops at the first result token of the main line.  For  *)
(* a text that ends with a result token r and parses with success, any     *)
(* text y appended after r that leaves r a token (r is "*", or y does not  *)
(* begin with a letter, a digit or one of _ + # = -, the characters that   *)
(* continue an identifier) gives exactly the same Game and no error.       *)
(***************************************************************************)
StoppedAtResult == Returned /\ out.game[1].Result # <<>> /\ isResult(T[nscan])

\* The text up to and with the result token the driver stopped at.
UpToResult == SubSeq(rd, 1, EndOf(nscan))

\* Texts to append: nothing, moves, a tag pair, parentheses, illegal
\* characters, an open string, the character U+0000.
Tails ==
    {<<>>, <<" ", "e", "4">>, <<"e", "4">>, <<"0">>, <<"-">>,
     <<"[", "A", " ", "\"", "b", "\"", "]">>, <<")">>, <<"(", "(">>,
     <<"/">>, <<"!", "?">>, <<"\"">>, <<eof>>, <<" ", "e", "9", " ", "*">>}

ContinuesIdent(y) ==
    /\ y # <<>>
    /\ y[1] \in LowerLetters \cup UpperLetters \cup Range(Digits)
                \cup {"_", "+", "#", "=", "-"}

C19_StopsAtResult ==
    StoppedAtResult =>
        \A y \in Tails :
            (T[nscan].Type = "ASTERISK" \/ ~ContinuesIdent(y))
                => Parse(UpToResult \o y, 0, NewGame, strict) = out

\* The statement for every text y.
C19_AnyTextAfterResult ==
    StoppedAtResult =>
        \A y \in Tails : Parse(UpToResult \o y, 0, NewGame, strict) = out

\* The text of the call itself goes on after the result with a token that
\* no movetext may hold at that place.
C19_Witness ==
    /\ StoppedAtResult
    /\ out.game[1].Moves # <<>>
    /\ nscan + 1 < Len(T)
    /\ T[nscan + 1].Type \in {"RPAREN", "LPAREN"}

(***************************************************************************)
(* C20.  ParseString discards one leading byte-order mark: for every text  *)
(* s that does not itself begin with a byte-order mark and every option    *)
(* list, ParseString(BOM + s) returns the same Game and the same error     *)
(* status as ParseString(s).                                               *)
(***************************************************************************)
StartsWithBOM(s) == s # <<>> /\ s[1] = BOM

C20_LeadingBOM ==
    pc = "done" =>
        /\ ~StartsWithBOM(input) =>
              Outcome(ParseStringOf(<<BOM>> \o input, opts)) = Outcome(out)
        /\ (StartsWithBOM(input) /\ ~StartsWithBOM(Tail(input))) =>
              Outcome(out) = Outcome(ParseStringOf(Tail(input), opts))

\* The statement for every text s.
C20_LeadingBOMEveryText ==
    pc = "done" => Outcome(ParseStringOf(<<BOM>> \o input, opts)) = Outcome(out)

\* A call with a text that begins with one byte-order mark returns the
\* game of the rest of the text.
C20_Witness ==
    /\ Returned
    /\ StartsWithBOM(input) /\ rd = Tail(input)
    /\ out.game[1].Moves # <<>>
    /\ out = ParseStringOf(Tail(input), opts)

(***************************************************************************)
(* C21.  Two calls that run concurrently on two Parsers share no mutable   *)
(* state: under every interleaving of their steps each call works in the   *)
(* mode its own options chose and returns the Game or the error that it    *)
(* returns when it runs alone; a step of one call leaves the other call    *)
(* as it was.                                                              *)
(***************************************************************************)
C21_Isolation ==
    /\ pc \notin {"ParseString", "none"} => strict = NewParserStrict(opts)
    /\ other.pc \notin {"ParseString", "none"} => other.strict = NewParserStrict(other.opts)
    /\ pc = "done" => out = ParseStringOf(input, opts)
    /\ other.pc = "done" => other.out = ParseStringOf(other.input, other.opts)

\* A step of the call that steps does not touch the call that waits.
C21_StepsLeaveOther == [][Next => other' = other]_vars

\* Both calls are under way, one strict and one lax, and neither is done.
C21_Witness ==
    /\ pc = "parseMovetext" /\ rav # <<>>
    /\ other.pc = "parseTagPair_value"
    /\ strict /\ ~other.strict

\* Both calls have returned, the strict one an error and the lax one a Game,
\* for the same text.
C21_WitnessDone ==
    /\ pc = "done" /\ other.pc = "done"
    /\ input = other.input
    /\ strict /\ ~other.strict
    /\ Failed /\ other.out.game # <<>>

(***************************************************************************)
(* C22.  SplitMultiGame cuts the text before every line (but the first)    *)
(* whose trimmed content begins with "[Event ".  It returns, in the order  *)
(* of the text, one trimmed string for each such line, running up to the   *)
(* next such line, preceded by one more string exactly when text that is   *)
(* not white space comes before the first such line; no string returned    *)
(* is empty or has white space at an end; a text of white space only, or   *)
(* the empty text, gives no games.                                         *)
(***************************************************************************)
\* The lines of the text, with the line ends "\r\n" and "\n".
TextLines == Split(ReplaceAll(split.pgn))

\* The indices of the lines that begin a game: after white space only,
\* "[Event " and then some character that is not white space (the space of
\* "[Event " would else be trimmed with the end of the line).
EventLines ==
    {i \in 1..Len(TextLines) :
        \E a \in 0..Len(TextLines[i]) :
            /\ \A k \in 1..a : IsSpace(TextLines[i][k])
            /\ Len(TextLines[i]) >= a + 8
            /\ SubSeq(TextLines[i], a + 1, a + 7) = EventPrefix
            /\ \E k \in (a + 8)..Len(TextLines[i]) : ~IsSpace(TextLines[i][k])}

\* The lines lo..hi, each with its line feed.
RECURSIVE JoinLines(_, _)
JoinLines(lo, hi) ==
    IF lo > hi THEN <<>> ELSE TextLines[lo] \o <<LF>> \o JoinLines(lo + 1, hi)

IsBlank(s) == \A k \in 1..Len(s) : IsSpace(s[k])

\* The last line of the game that begins at line i.
GameEnd(i) ==
    IF \E j \in EventLines : j > i
    THEN (CHOOSE j \in EventLines : j > i /\ \A m \in EventLines : m > i => j <= m) - 1
    ELSE Len(TextLines)

\* The lines before the first line that begins a game.
Preamble == JoinLines(1, GameEnd(0))

\* The number of lines up to line i that begin a game.
Rank(i) == Cardinality({j \in EventLines : j <= i})

C22_SplitMultiGame ==
    split.pc = "done" =>
        LET extra == IF IsBlank(Preamble) THEN 0 ELSE 1
            g == split.games
        IN  /\ Len(g) = Cardinality(EventLines) + extra
            /\ extra = 1 => g[1] = TrimSpace(Preamble)
            /\ \A i \in EventLines :
                  g[Rank(i) + extra] = TrimSpace(JoinLines(i, GameEnd(i)))
            /\ \A k \in 1..Len(g) :
                  g[k] # <<>> /\ ~IsSpace(g[k][1]) /\ ~IsSpace(g[k][Len(g[k])])
            /\ IsBlank(split.pgn) => g = <<>>

\* Text before the first header, which is indented: two strings.
C22_Witness ==
    /\ split.pc = "done"
    /\ Len(split.games) = 2
    /\ Cardinality(EventLines) = 1
    /\ ~IsBlank(Preamble)
    /\ \E i \in EventLines : IsSpace(TextLines[i][1])

(***************************************************************************)
(* C23.  SplitMultiGame does not depend on Windows line endings: for a     *)
(* text whose line endings are "\n" (no "\r\n" in it), the text with every *)
(* "\n" replaced by "\r\n" gives exactly the same list of strings.         *)
(***************************************************************************)
\* The text with every line feed replaced by carriage return, line feed.
RECURSIVE WithCRLF(_)
WithCRLF(s) ==
    IF s = <<>> THEN <<>>
    ELSE (IF s[1] = LF THEN <<CR, LF>> ELSE <<s[1]>>) \o WithCRLF(Tail(s))

HasCRLF(s) == \E k \in 1..(Len(s) - 1) : s[k] = CR /\ s[k + 1] = LF

C23_WindowsLineEndings ==
    (split.pc = "done" /\ ~HasCRLF(split.pgn)) =>
        /\ split.games = SplitMultiGame(split.pgn)
        /\ SplitMultiGame(WithCRLF(split.pgn)) = split.games

\* A game of two lines: the line end is inside the string returned.
C23_Witness ==
    /\ split.pc = "done" /\ ~HasCRLF(split.pgn)
    /\ \E k \in 1..Len(split.games) : LF \in Range(split.games[k])
    /\ WithCRLF(split.pgn) # split.pgn

C24_StopsAtNUL ==
    /\ Returned /\ ~strict
    /\ out.game[1].Moves # <<>>
    /\ tok.Type = "EOF"
    /\ pos < Len(rd) /\ rd[pos] = eof
    /\ \E k \in (pos + 1)..Len(rd) : ~IsWhitespace(rd[k]) /\ rd[k] # eof

(***************************************************************************)
(* C25.  In a move token with "=", what follows the promotion letter is    *)
(* exactly "+", exactly "#", or nothing: a token with any other text after *)
(* the promotion letter fails the parse, so every such token of a returned *)
(* Game has one of the three.                                              *)
(***************************************************************************)
\* The index of the first "=" of w, 0 if there is none.
FirstEq(w) ==
    IF "=" \in Range(w)
    THEN CHOOSE i \in 1..Len(w) : w[i] = "=" /\ \A k \in 1..(i - 1) : w[k] # "="
    ELSE 0

\* The text after the character that follows the first "=".
AfterPromotion(w) == SubSeq(w, FirstEq(w) + 2, Len(w))

C25_PromotionSuffix ==
    Returned =>
        \A i \in 1..Len(ConsumedIdents) :
            LET w == T[ConsumedIdents[i]].Literal
            IN  FirstEq(w) > 0 => AfterPromotion(w) \in {<<>>, <<"+">>, <<"#">>}

\* What the code does with "e8=QQ": the move is accepted, a promotion to
\* queen with no check and no mate.
C25_AcceptedSuffix ==
    /\ Returned
    /\ T[1].Literal = <<"e", "8", "=", "Q", "Q">>
    /\ Len(out.game[1].Moves) = 1
    /\ out.game[1].Moves[1].Promotion = "Queen"
    /\ ~out.game[1].Moves[1].IsCheck /\ ~out.game[1].Moves[1].IsMate

(***************************************************************************)
(* C26.  In a move token with "=", the character right after the first     *)
(* "=" is one of N, B, R, Q, K, and it is the Promotion of the move: a     *)
(* token whose "=" is its last character, or is followed by any other      *)
(* character (a lowercase piece letter, "P"), fails the parse.             *)
(***************************************************************************)
C26_PromotionLetter ==
    Returned =>
        LET flat == Preorder(out.game[1].Moves)
        IN  /\ Len(flat) = Len(ConsumedIdents)
            /\ \A i \in 1..Len(flat) :
                  LET w == T[ConsumedIdents[i]].Literal
                      e == FirstEq(w)
                  IN  e > 0 =>
                        /\ e < Len(w)
                        /\ w[e + 1] \in {"N", "B", "R", "Q", "K"}
                        /\ flat[i].Promotion =
                              CASE w[e + 1] = "N" -> "Knight" [] w[e + 1] = "B" -> "Bishop"
                                [] w[e + 1] = "R" -> "Rook" [] w[e + 1] = "Q" -> "Queen"
                                [] w[e + 1] = "K" -> "King"

\* A promotion to a lowercase letter is rejected.
C26_Witness ==
    /\ Failed /\ out.err = "invalid move"
    /\ tok.Literal = <<"e", "x", "d", "8", "=", "q">>

\* A token that ends with "=" is rejected.
C26_WitnessEnd ==
    /\ Failed /\ out.err = "invalid move"
    /\ tok.Literal = <<"e", "8", "=">>

(***************************************************************************)
(* C27.  A core that is no castling is accepted if and only if it is: at   *)
(* most one piece letter N, B, R, Q, K, then at most one disambiguation    *)
(* character (a file a-h or a rank 1-8), then at most one "x", then a      *)
(* destination (file a-h, rank 1-8), and nothing else.  Every move token   *)
(* of a returned Game has such a core, and a token that fails the parse    *)
(* (its promotion, if any, being well formed) has none.                    *)
(***************************************************************************)
InShape(c) ==
    \E p \in 0..1 : \E d \in 0..1 : \E x \in 0..1 :
        /\ Len(c) = p + d + x + 2
        /\ p = 1 => c[1] \in {"N", "B", "R", "Q", "K"}
        /\ d = 1 => c[p + 1] \in {"a", "b", "c", "d", "e", "f", "g", "h",
                                  "1", "2", "3", "4", "5", "6", "7", "8"}
        /\ x = 1 => c[p + d + 1] = "x"
        /\ c[Len(c) - 1] \in {"a", "b", "c", "d", "e", "f", "g", "h"}
        /\ c[Len(c)] \in {"1", "2", "3", "4", "5", "6", "7", "8"}

\* The promotion part of w, if it has one, is a piece letter after "=".
PromotionOk(w) ==
    FirstEq(w) > 0 => FirstEq(w) < Len(w) /\ w[FirstEq(w) + 1] \in {"N", "B", "R", "Q", "K"}

C27_CoreShape ==
    /\ Returned =>
          \A i \in 1..Len(ConsumedIdents) :
              LET c == TextCore(T[ConsumedIdents[i]].Literal)
              IN  c \in castling \/ InShape(c)
    /\ (Failed /\ out.err = "invalid move" /\ PromotionOk(tok.Literal)) =>
          LET c == TextCore(tok.Literal)
          IN  c \notin castling /\ ~InShape(c)

\* A core with a file and a rank as disambiguation is rejected.
C27_Witness ==
    /\ Failed /\ out.err = "invalid move"
    /\ tok.Literal = <<"Q", "d", "1", "d", "1">>

\* A core with all four parts is accepted.
C27_WitnessAccepted ==
    /\ Returned
    /\ T[1].Literal = <<"Q", "1", "x", "d", "1">>
    /\ Len(out.game[1].Moves) = 1
    /\ out.game[1].Moves[1].From = Square(0, 0) /\ out.game[1].Moves[1].IsCapture

(***************************************************************************)
(* C28.  A NAG or a left parenthesis is accepted only after a move of the  *)
(* same sequence.  When the parse has read a NAG or a "(" that is the      *)
(* first element of the main line, or the first element of a variation     *)
(* (whatever the enclosing line holds), it fails, in both modes; when it   *)
(* stops on that token, the error is the one of the test that refused it.  *)
(***************************************************************************)
\* Token k comes first in its sequence: from the start of the movetext, or
\* from a left parenthesis, to k there are only numbers, dots and comments.
FirstOfSequence(k) ==
    /\ k >= TagEnd(T, 1)
    /\ \E s \in (TagEnd(T, 1) - 1)..(k - 1) :
          /\ s = TagEnd(T, 1) - 1 \/ T[s].Type = "LPAREN"
          /\ \A j \in (s + 1)..(k - 1) : T[j].Type \in {"NUMBER", "DOT", "COMMENT"}

AnnotatesNothing ==
    {k \in 1..nscan : T[k].Type \in {"NAG", "LPAREN"} /\ FirstOfSequence(k)}

C28_NeedsMove ==
    (pc = "done" /\ nscan <= Len(T) /\ AnnotatesNothing # {}) =>
        /\ Failed
        /\ nscan \in AnnotatesNothing =>
              out.err \in {"found NAG before any moves",
                           "found variation before any moves",
                           "unexpected token at start of game"}

\* A NAG first in a variation of a line that has a move.
C28_Witness ==
    /\ Failed /\ strict
    /\ out.err = "found NAG before any moves"
    /\ nscan = 3 /\ IsMoveTok(T, 1) /\ T[2].Type = "LPAREN" /\ T[3].Type = "NAG"

\* A left parenthesis first in the main line, after a move number, in lax mode.
C28_WitnessLax ==
    /\ Failed /\ ~strict
    /\ out.err = "found variation before any moves"
    /\ nscan = 3 /\ T[1].Type = "NUMBER" /\ T[2].Type = "DOT" /\ T[3].Type = "LPAREN"

(***************************************************************************)
(* C29.  In strict mode a missing result token is fatal only once a move   *)
(* has been parsed: a text of tag pairs and comments, followed by nothing  *)
(* or by move numbers, dots and comments only, parses with success to a    *)
(* Game with no move and an empty Result.                                  *)
(***************************************************************************)
\* After the tag section the text holds no move and no result: nothing, or
\* a move number followed by numbers, dots and comments.
NoMoveNoResult ==
    /\ eof \notin Range(rd)
    /\ \A k \in TagEnd(T, 1)..(Len(T) - 1) : T[k].Type \in {"NUMBER", "DOT", "COMMENT"}
    /\ TagEnd(T, 1) < Len(T) => T[TagEnd(T, 1)].Type = "NUMBER"

C29_NoMovesNoResult ==
    (pc = "done" /\ strict /\ NoMoveNoResult) =>
        /\ Returned
        /\ out.game[1].Moves = <<>>
        /\ out.game[1].Result = <<>>

\* What the driver does with "1." in strict mode: the test after the
\* movetext does not look at the moves.
C29_Rejected ==
    /\ Failed /\ strict /\ NoMoveNoResult
    /\ game.Moves = <<>>
    /\ T[1].Type = "NUMBER" /\ T[2].Type = "DOT" /\ Len(T) = 3
    /\ out.err = "game must end with a result token"

\* Tag pairs alone are accepted in strict mode.
C29_TagsOnlyAccepted ==
    /\ Returned /\ strict /\ NoMoveNoResult
    /\ TagEnd(T, 1) = Len(T) /\ Len(T) > 1
    /\ out.game[1].Moves = <<>> /\ out.game[1].Result = <<>>

(***************************************************************************)
(* C30.  Move numbers and dots carry no structure.  Once the movetext has  *)
(* started (the token after the tag section is an identifier or a number), *)
(* a number token, a dot token or a number with its dots put in after any  *)
(* of its tokens, in the main line or in a variation, and a number or dot  *)
(* token taken out from after its first token, change neither the Game     *)
(* returned (moves, NAGs, variations, result) nor whether the parse fails. *)
(***************************************************************************)
\* The movetext has started, and k is one of its tokens.
NumberSlots ==
    {k \in TagEnd(T, 1)..(Len(T) - 1) : T[TagEnd(T, 1)].Type \in {"IDENT", "NUMBER"}}

NumberTexts == {<<" ", "1", " ">>, <<" ", ".", " ">>, <<" ", "1", "2", ".", ".", ".", " ">>}

\* The text with white space in the place of token k.
BlankToken(k) ==
    SubSeq(rd, 1, EndOf(k - 1)) \o <<" ">> \o SubSeq(rd, EndOf(k) + 1, Len(rd))

C30_NumbersTransparent ==
    pc = "done" =>
        /\ \A k \in NumberSlots : \A c \in NumberTexts :
              Outcome(Parse(InsertAt(rd, EndOf(k), c), 0, NewGame, strict)) = Outcome(out)
        /\ \A k \in NumberSlots :
              (k > TagEnd(T, 1) /\ T[k].Type \in {"NUMBER", "DOT"})
                  => Outcome(Parse(BlankToken(k), 0, NewGame, strict)) = Outcome(out)

\* A move with a variation: the slots after "(" and after the move of the
\* variation are inside the variation.
C30_Witness ==
    /\ Returned
    /\ IsMoveTok(T, 1) /\ T[2].Type = "LPAREN" /\ IsMoveTok(T, 3) /\ T[4].Type = "RPAREN"
    /\ {1, 2, 3, 4} \subseteq NumberSlots
    /\ Len(out.game[1].Moves) = 1
    /\ Len(out.game[1].Moves[1].Variations) = 1

\* A number and a dot between two moves: either can be taken out.
C30_WitnessDelete ==
    /\ Returned
    /\ IsMoveTok(T, 1) /\ T[2].Type = "NUMBER" /\ T[3].Type = "DOT"
    /\ {2, 3} \subseteq NumberSlots
    /\ Len(out.game[1].Moves) >= 1

(***************************************************************************)
(* C31.  Inside the movetext a quoted string, a right bracket or an        *)
(* illegal token (a character the scanner does not recognize, such as a    *)
(* carriage return or "/") is fatal in both modes: when the parse has read *)
(* such a token after the movetext started, it returns an error and no     *)
(* Game, and when it stops on that token the error is "unexpected token in *)
(* movetext".                                                              *)
(***************************************************************************)
\* The tokens of the movetext, after its first, that the parse has read and
\* that have no case in parseMovetext.
StrayTokens ==
    {k \in (TagEnd(T, 1) + 1)..nscan :
        /\ T[TagEnd(T, 1)].Type \in {"IDENT", "NUMBER"}
        /\ T[k].Type \in {"STRING", "RBRACKET", "ILLEGAL"}}

C31_StrayTokenFatal ==
    (pc = "done" /\ nscan <= Len(T) /\ StrayTokens # {}) =>
        /\ Failed
        /\ nscan \in StrayTokens => out.err = "unexpected token in movetext"

\* A carriage return inside a variation, in lax mode.
C31_Witness ==
    /\ Failed /\ ~strict
    /\ out.err = "unexpected token in movetext"
    /\ nscan = 4 /\ nscan \in StrayTokens
    /\ T[2].Type = "LPAREN" /\ T[4] = Token("ILLEGAL", <<"\r">>)

\* A quoted string after a move, in strict mode.
C31_WitnessString ==
    /\ Failed /\ strict
    /\ out.err = "unexpected token in movetext"
    /\ nscan = 2 /\ IsMoveTok(T, 1) /\ T[2] = Token("STRING", <<"s">>)

(***************************************************************************)
(* C32.  The end marker is absorbing for the Scanner: once a call of Scan  *)
(* has returned EOF, every later call of Scan on the same Scanner returns  *)
(* EOF.                                                                    *)
(***************************************************************************)
C32_EOFAbsorbing ==
    [][(pc = "Scan" /\ nscan >= 1 /\ tok.Type = "EOF") => tok'.Type = "EOF"]_vars

\* At the end of the text, EOF is followed by EOF.
C32_AbsorbingAtEnd ==
    [][(pc = "Scan" /\ nscan >= 1 /\ tok.Type = "EOF" /\ pos = Len(rd))
          => (tok'.Type = "EOF" /\ pos' = pos)]_vars

\* What the Scanner does after a character U+0000: the first call returns
\* EOF, the second the identifier that follows.
C32_TokenAfterEOF ==
    /\ pc = "Scan" /\ nscan = 2
    /\ T[1].Type = "EOF"
    /\ tok.Type = "IDENT" /\ tok.Literal = <<"e">>

(***************************************************************************)
(* C33.  The Scanner coalesces identifier runs.  A call of Scan that,      *)
(* after the white space, stands at a letter or a digit returns one        *)
(* IDENT or NUMBER token whose literal is the whole run of letters,        *)
(* digits, "_", "+", "#", "x", "=" and "-" from that character on: a move  *)
(* such as exd8=R#, O-O-O or e8=Q+ is one token.                           *)
(***************************************************************************)
RunChars ==
    LowerLetters \cup UpperLetters
    \cup {"0", "1", "2", "3", "4", "5", "6", "7", "8", "9", "_", "+", "#", "x", "=", "-"}

\* The first position at or after i that holds no white space.
TokenStart(i) ==
    CHOOSE b \in i..Len(rd) :
        /\ \A j \in (i + 1)..b : rd[j] \in {" ", "\t", "\n"}
        /\ b < Len(rd) => rd[b + 1] \notin {" ", "\t", "\n"}

\* The end of the run of RunChars that starts after position b.
RunEnd(b) ==
    CHOOSE e \in b..Len(rd) :
        /\ \A j \in (b + 1)..e : rd[j] \in RunChars
        /\ e < Len(rd) => rd[e + 1] \notin RunChars

StartsRun(b) ==
    /\ b < Len(rd)
    /\ rd[b + 1] \in (RunChars \ {"_", "+", "#", "=", "-"})

MaximalRun(a, e) ==
    /\ a <= e
    /\ \A j \in a..e : rd[j] \in RunChars
    /\ a > 1 => rd[a - 1] \notin RunChars
    /\ e < Len(rd) => rd[e + 1] \notin RunChars

C33_WitnessDash ==
    /\ pc = "Scan" /\ nscan = 1
    /\ tok = Token("IDENT", <<"e", "-", "1", "=">>)

(***************************************************************************)
(* C34.  An identifier run is a NUMBER token if and only if it consists    *)
(* of digits only, whatever its length; a run with a character that is no  *)
(* digit is an IDENT token.                                                *)
(***************************************************************************)
AllDigits(lit) ==
    \A i \in DOMAIN lit : lit[i] \in {"0", "1", "2", "3", "4", "5", "6", "7", "8", "9"}

C34_NumberIffDigits ==
    (pc = "Scan" /\ nscan >= 1 /\ tok.Type \in {"IDENT", "NUMBER"}) =>
        (tok.Type = "NUMBER" <=> AllDigits(tok.Literal))

\* The same for runs of at most 18 characters, which fit in an int.
C34_NumberIffDigitsShort ==
    (pc = "Scan" /\ nscan >= 1 /\ tok.Type \in {"IDENT", "NUMBER"} /\ Len(tok.Literal) <= 18) =>
        (tok.Type = "NUMBER" <=> AllDigits(tok.Literal))

\* What the Scanner does with the digits of 2^63: strconv.Atoi reports a
\* range error and the run stays an identifier.
C34_LongRunIsIdent ==
    /\ pc = "Scan" /\ nscan = 1
    /\ tok = Token("IDENT", SubSeq(MaxInt64, 1, 18) \o <<"8">>)

(***************************************************************************)
(* C35.  A NAG that is taken carries one or more digits, and its integer   *)
(* value is what is appended.  A "$" with no digit right after it never    *)
(* attaches an annotation (in particular not the value 0): when the parse  *)
(* has read it, the parse fails.                                           *)
(***************************************************************************)
\* The NAG tokens the driver has read.
ReadNAGs == {k \in 1..nscan : k <= Len(T) /\ T[k].Type = "NAG"}

RECURSIVE SumLen(_)
SumLen(ms) == IF ms = <<>> THEN 0 ELSE Len(Head(ms).NAGs) + SumLen(Tail(ms))

C35_WitnessValues ==
    /\ Returned
    /\ Len(out.game[1].Moves) = 1
    /\ out.game[1].Moves[1].NAGs = <<0, 12>>

(***************************************************************************)
(* C36.  In every returned Game a move whose Promotion is not Pawn is a    *)
(* pawn move: its Piece is Pawn and it is no castling (the grammar has     *)
(* the promotion after the destination of a pawn move only).               *)
(***************************************************************************)
C36_PromotionOnPawnMove ==
    Returned =>
        LET flat == Preorder(out.game[1].Moves)
        IN  \A i \in 1..Len(flat) :
                flat[i].Promotion # "Pawn" =>
                    /\ flat[i].Piece = "Pawn"
                    /\ ~flat[i].IsKingsideCastle
                    /\ ~flat[i].IsQueensideCastle

\* What the decomposer does with "Ne8=Q": the promotion is stripped before
\* the core is looked at, and put on whatever move the core gives.
C36_PieceMovePromotes ==
    /\ Returned
    /\ T[1].Literal = <<"N", "e", "8", "=", "Q">>
    /\ out.game[1].Moves[1].Piece = "Knight"
    /\ out.game[1].Moves[1].Promotion = "Queen"

(***************************************************************************)
(* C37.  Handling a NAG changes only the NAGs field of the last move of    *)
(* the current sequence, and handling a variation only its Variations      *)
(* field: the other fields of that move, the earlier moves of the          *)
(* sequence, the enclosing sequences, Tags and Result stay as they are,    *)
(* and the sequence keeps its number of moves.  Step by step: the NAG      *)
(* step appends the value; the step at "(" only opens an empty sequence;   *)
(* no step inside a variation touches an enclosing sequence; the step at   *)
(* ")" appends the variation to the last move of the parent.               *)
(***************************************************************************)
\* The sequences under construction, the main line first.
Sequences(g, r) == <<g.Moves>> \o r

\* Sequence b is sequence a with only field f of its last move changed.
OnlyLastField(a, b, f) ==
    /\ Len(b) = Len(a) /\ Len(a) >= 1
    /\ \A i \in 1..(Len(a) - 1) : b[i] = a[i]
    /\ \A h \in (DOMAIN a[Len(a)]) \ {f} : b[Len(a)][h] = a[Len(a)][h]

FrameNAG ==
    LET old == Sequences(game, rav)
        new == Sequences(game', rav')
        d == Len(old)
    IN  /\ Len(new) = d
        /\ \A l \in 1..(d - 1) : new[l] = old[l]
        /\ OnlyLastField(old[d], new[d], "NAGs")
        /\ new[d][Len(new[d])].NAGs
              = Append(old[d][Len(old[d])].NAGs, AtoiVal(tok.Literal))
        /\ game'.Tags = game.Tags /\ game'.Result = game.Result

FrameOpen == game' = game /\ rav' = Append(rav, <<>>)

FrameInside ==
    /\ game' = game
    /\ \A l \in 1..(Len(rav) - 1) : rav'[l] = rav[l]

FrameClose ==
    LET old == Sequences(game, rav)
        new == Sequences(game', rav')
        d == Len(old)
    IN  /\ Len(new) = d - 1
        /\ \A l \in 1..(d - 2) : new[l] = old[l]
        /\ OnlyLastField(old[d - 1], new[d - 1], "Variations")
        /\ new[d - 1][Len(new[d - 1])].Variations
              = Append(old[d - 1][Len(old[d - 1])].Variations, old[d])
        /\ game'.Tags = game.Tags /\ game'.Result = game.Result

C37_Frame ==
    [][(pc = "parseMovetext" /\ pc' = "parseMovetext" /\ nscan' = nscan + 1) =>
          /\ tok.Type = "NAG" => FrameNAG
          /\ tok.Type = "LPAREN" => FrameOpen
          /\ (rav # <<>> /\ Len(rav') = Len(rav)) => FrameInside
          /\ (rav # <<>> /\ tok.Type = "RPAREN") => FrameClose]_vars

\* The scenario with NAGs before and after a variation on the first move
\* and two variations on the second.
C37_Witness ==
    /\ Returned
    /\ Len(out.game[1].Moves) = 2
    /\ out.game[1].Moves[1].NAGs = <<1, 3, 4>>
    /\ Len(out.game[1].Moves[1].Variations) = 1
    /\ out.game[1].Moves[1].Variations[1][1].NAGs = <<2>>
    /\ out.game[1].Moves[2].NAGs = <<>>
    /\ Len(out.game[1].Moves[2].Variations) = 2
    /\ Bare(out.game[1].Moves[1]) = Bare(parseMoveFromRaw(<<"e", "4">>).move)

(***************************************************************************)
(* C38.  The result token is never consumed.  When Parse returns a Game    *)
(* with a Result, the current token of the Parser is that result token;    *)
(* and from then on, through every further call of Parse on the same       *)
(* Parser, the current token stays the same and no token is read, so the   *)
(* games that follow in the text are never reached.                        *)
(***************************************************************************)
\* The Parser stands at a result token at the top of a game: between two
\* calls, at the head of the loop of Parse, or in the parseMovetext of the
\* main line.
StaysAtResult ==
    /\ isResult(tok)
    /\ \/ pc \in {"done", "Parse"}
       \/ pc = "parseMovetext" /\ rav = <<>>

C38_ResultNotConsumed ==
    [][/\ (pc' = "done" /\ out'.game # <<>> /\ out'.game[1].Result # <<>>)
            => (StaysAtResult' /\ tok'.Literal = out'.game[1].Result)
       /\ StaysAtResult
            => (tok' = tok /\ nscan' = nscan /\ pos' = pos /\ StaysAtResult')]_vars

\* A second call after "e4 *" with text left: it fails at the asterisk,
\* which the first call left as the current token.
C38_Witness ==
    /\ Failed
    /\ out.err = "unexpected token at start of game"
    /\ tok.Type = "ASTERISK"
    /\ nscan = 2 /\ IsMoveTok(T, 1) /\ parseMoveFromRaw(T[1].Literal).ok
    /\ Len(T) >= 4

\* A second call after "e4 1-0": it returns a Game with no move and the
\* same Result.
C38_WitnessIdent ==
    /\ Returned
    /\ out.game[1].Moves = <<>>
    /\ out.game[1].Result = <<"1", "-", "0">>
    /\ nscan = 2 /\ IsMoveTok(T, 1) /\ parseMoveFromRaw(T[1].Literal).ok
    /\ Len(T) >= 4

(***************************************************************************)
(* C39.  Tag keys are unique and case-sensitive in the returned Game.      *)
(* Tags holds one entry per distinct key of the tag pairs of the tag       *)
(* section, its value is that of the last pair with that key, keys that    *)
(* differ only in the case of their letters are entries of their own, and  *)
(* the number of entries is the number of distinct keys.                   *)
(***************************************************************************)
\* The tag pairs of the tag section of the token sequence ts, by the index
\* of their left bracket.
LeadingStarts(ts) == {k \in 1..(TagEnd(ts, 1) - 1) : ts[k].Type = "LBRACKET"}

\* The key with its letters a and b in upper case.
UpperCased(n) ==
    [i \in 1..Len(n) |-> IF n[i] = "a" THEN "A" ELSE IF n[i] = "b" THEN "B" ELSE n[i]]

C39_TagKeys ==
    Returned =>
        LET tags == out.game[1].Tags
            ts == T
            starts == LeadingStarts(ts)
            keyAt == [k \in starts |-> ts[k + 1].Literal]
            valueAt == [k \in starts |-> ts[k + 2].Literal]
            keys == {keyAt[k] : k \in starts}
        IN  /\ DOMAIN tags = keys
            /\ Cardinality(DOMAIN tags) = Cardinality(keys)
            /\ \A k \in starts :
                  (\A j \in starts : keyAt[j] = keyAt[k] => j <= k)
                      => tags[keyAt[k]] = valueAt[k]
            /\ \A k \in starts : \A j \in starts :
                  (keyAt[j] # keyAt[k] /\ UpperCased(keyAt[j]) = UpperCased(keyAt[k]))
                      => {keyAt[j], keyAt[k]} \subseteq DOMAIN tags

\* The key Ab twice, with ab or AB between or beside: two entries, and Ab
\* has the value of its second pair.
C39_Witness ==
    /\ Returned
    /\ Cardinality(LeadingStarts(T)) = 3
    /\ Cardinality(DOMAIN out.game[1].Tags) = 2
    /\ <<"A", "b">> \in DOMAIN out.game[1].Tags
    /\ out.game[1].Tags[<<"A", "b">>] = <<"2">>
    /\ \E k \in LeadingStarts(T) :
          T[k + 1].Literal = <<"A", "b">> /\ T[k + 2].Literal = <<"1">>
    /\ \E n \in DOMAIN out.game[1].Tags :
          n # <<"A", "b">> /\ UpperCased(n) = <<"A", "B">>

====
